---- MODULE Spec2Model ----
(***************************************************************************)
(* Event-driven servant runtime of IDTF-FastProto: the in-memory event bus *)
(* (src/core/eventbus/inmem.py) driven by concurrent caller threads, the   *)
(* Tag Servant (src/core/runtime/tag_servant.py) that publishes on it, the *)
(* SQLite named queues (src/core/queue/sqlite_queue.py) and the servant    *)
(* lifecycle run by the NDH service (src/core/runtime/ndh_service.py,      *)
(* asset_servant.py).                                                      *)
(***************************************************************************)
EXTENDS Integers, Sequences, FiniteSets, TLC

(* ------------------------------ bounds --------------------------------- *)
MaxPublish == 3      \* events created by callers
MaxSubs    == 2      \* subscribe calls
MaxCap     == 2      \* largest max_history_size a bus is constructed with
MaxReplay  == 1      \* replay_events calls
MaxLimit   == 3      \* largest limit passed to get_event_history
MaxTime    == 2      \* clock readings (datetime.utcnow) seen by the model
MaxQueuePut  == 3    \* put calls on queues
MaxQueueSize == 2    \* largest max_size a queue is constructed with
MaxRows    == 3      \* rows written to the Time-Series Store
MaxStoreCalls == 3   \* write_tag_value and write_tag_values calls
MaxBatch   == 2      \* longest list passed to write_tag_values
MaxIds     == 3      \* event ids generated
MaxTransforms == 2   \* update_transform calls
MaxInstances == 3    \* instances a layout places
MaxLifecycleCalls == 3   \* start/stop calls made on service and servants

(* ------------------------------ domains -------------------------------- *)
Threads    == {"t1", "t2"}
NoThread   == "none"
EventTypes == {"X", "Y"}
Patterns   == {"X", "*"}
NoType     == ""                       \* event_type=None (or any falsy str)
NoTime     == 0                        \* start_time/end_time=None
CallbackKinds  == {"ok", "raise"}      \* returns normally / raises Exception
ReentrantKinds == {"publish", "subscribe", "unsubscribe",
                   "get_event_history", "get_stats"}
FilterKinds == {"none", "pass", "reject", "raise"}
NoEvent    == [event_id |-> 0, event_type |-> NoType, timestamp |-> 0]
NoRet      == [op |-> "none"]
NoValue    == 0 - 1                    \* current_value = None
Values     == {1, 3}
DefaultTagConfig ==
  [auto_publish_events |-> TRUE, auto_write_tsdb |-> FALSE,
   value_change_threshold |-> NoValue]

VARIABLES
  max_history_size,   \* InMemoryEventBus.max_history_size
  event_history,      \* InMemoryEventBus.event_history (list of Event)
  subscriptions,      \* InMemoryEventBus.subscriptions (insertion-ordered dict)
  lock,               \* InMemoryEventBus.lock: the thread holding it
  stats,              \* InMemoryEventBus.stats
  pc,                 \* per thread: where its current bus call stands
  ev,                 \* per thread: the event of its publish / replay step
  idx,                \* per thread: position in the subscription iteration
  events_to_replay,   \* per thread: the list replay_events iterates over
  replay_pos,         \* per thread: index of the event being replayed
  replay_type,        \* per thread: the event_type argument of its replay_events
  caller,             \* per thread: the servant method that called publish
  last_ret,           \* what the call that finished last returned or raised,
                      \* until the next step
  clock,              \* datetime.utcnow() as seen by event creators
  next_event_id,      \* number of events created so far, plus one
  n_replay,           \* replay_events calls so far
  pubLog,             \* ghost: every published event, in history-append order
  invoked,            \* ghost, per thread: the callbacks its current call has
                      \* invoked so far, in order
  last_seen,          \* ghost, per subscription id: append position of the last
                      \* event that publish handed to its callback
  n_callbacks_ok,     \* ghost: callback invocations that returned normally
  is_running,         \* TagServant.is_running
  current_value,      \* TagServant.current_value (NoValue models None)
  last_update_time,   \* TagServant.last_update_time (0 models None)
  tag_config,         \* TagServant.config
  db_path,            \* SQLiteQueueManager.db_path: ":memory:" or a file
  file_db,            \* the tables of the database file, by table-name suffix
  queues,             \* SQLiteQueueManager._queues: the queue objects, by name
  qpc,                \* per thread: where its current queue call stands
  qarg,               \* per thread: the arguments of its current queue call
  n_put,              \* put calls so far
  put_ok,             \* ghost: every message whose put succeeded, in order
  get_log,                \* ghost: what every finished get returned, in order
  known,              \* ghost: names passed to get_queue and not since to a
                      \* delete_queue that returned
  registry,           \* NDHService.asset_servants (insertion-ordered dict keys)
  svc_running,        \* NDHService.is_running
  asset_running,      \* AssetServant.is_running, per instance id
  tag_running,        \* TagServant.is_running, per generated Tag Servant
  frames,             \* per thread: the stack of servant methods under way
  call_log,           \* ghost: the lifecycle calls made so far, in order
  n_created,          \* ghost, per servant: *Created events it published
  n_transitions,      \* ghost, per servant: its stopped-to-running transitions
  n_stops,            \* ghost, per servant: its running-to-stopped transitions
  life_log,           \* ghost: the lifecycle events the servants published,
                      \* in publish order, with source and user call
  tsdb,               \* TagServant.tsdb: "None" or the attached store
  tag_values,         \* SQLiteTSDB: the rows of table tag_values as the one
                      \* shared connection sees them, in insertion order
  payloads,           \* ghost: payload of every TagValueChanged and
                      \* InstanceUpdated event built, in order
  tpc,                \* per thread: where its current store call stands
  targ,               \* per thread: the arguments of its current store call
  n_writes,           \* store write calls so far
  transform,          \* AssetInstance.transform, per instance id
  fdl,                \* NDHService.fdl: the loaded layout, if any
  tag_servants,       \* AssetServant.tag_servants of every registered
                      \* servant: its tag-definition ids (dict keys)
  event_ids           \* the event_id strings generate_uuidv7 returned to the
                      \* servants' event constructors, in creation order

busVars    == <<max_history_size, event_history, subscriptions, lock, stats>>
threadVars == <<pc, ev, idx, events_to_replay, replay_pos, replay_type, caller>>
ghostVars  == <<clock, next_event_id, n_replay, pubLog, invoked, last_seen, n_callbacks_ok>>
tagVars    == <<is_running, current_value, last_update_time, tag_config>>
queueVars  == <<db_path, file_db, queues, qpc, qarg, n_put, put_ok, get_log, known>>
svcVars    == <<registry, svc_running, asset_running, tag_running, frames, call_log,
                n_created, n_transitions>>
lifeVars   == <<n_stops, life_log>>
storeVars  == <<tsdb, tag_values, payloads, tpc, targ, n_writes>>
genVars    == <<transform, fdl, tag_servants, event_ids>>
vars == <<busVars, threadVars, ghostVars, tagVars, last_ret, queueVars, svcVars,
          lifeVars, storeVars, genVars>>

(* ------------------------------ helpers -------------------------------- *)
Abs(a) == IF a < 0 THEN 0 - a ELSE a
Min(a, b) == IF a < b THEN a ELSE b
Max(a, b) == IF a > b THEN a ELSE b

\* Python s[start:] for any integer start
PySliceFrom(s, start) ==
  LET n == Len(s)
      k == IF start < 0 THEN Max(n + start, 0) ELSE Min(start, n)
  IN  SubSeq(s, k + 1, n)

\* the last n elements of s (all of s when n >= Len(s))
LastN(s, n) == SubSeq(s, Len(s) - Min(n, Len(s)) + 1, Len(s))

RemoveAt(s, i) == SubSeq(s, 1, i - 1) \o SubSeq(s, i + 1, Len(s))

(* --------------------------- InMemoryEventBus -------------------------- *)
CanAcquire_NoMutex(t) == TRUE

CanAcquire_Reentrant(t) == lock \in {NoThread, t}

\* thread t can enter `with self.lock`: a threading.Lock is free or it blocks
\* the caller, also when the caller is the thread that holds it
CanAcquire(t) == lock = NoThread

HistoryAppend_NoEvict(h, e, cap) == Append(h, e)

\* publish: append, then evict the oldest when the cap is exceeded
HistoryAppend(h, e, cap) ==
  LET a == Append(h, e) IN IF Len(a) > cap THEN Tail(a) ELSE a

\* the pattern test of publish and replay_events
Matches(sub, e) == sub.event_type = e.event_type \/ sub.event_type = "*"

\* what dispatching event e to subscription sub does
DispatchOutcome(sub, e) ==
  IF ~Matches(sub, e) THEN "skip"
  ELSE IF sub.filter_func = "raise" THEN "filter_raise"
  ELSE IF sub.filter_func = "reject" THEN "skip"
  ELSE "call"

\* the three successive list comprehensions keep an event iff it passes every
\* filter that is given; then filtered_events[-limit:]
GetEventHistory(h, event_type, start_time, end_time, limit) ==
  LET keep(e) == /\ (event_type # NoType => e.event_type = event_type)
                 /\ (start_time # NoTime => e.timestamp >= start_time)
                 /\ (end_time # NoTime => e.timestamp <= end_time)
  IN  PySliceFrom(SelectSeq(h, keep), 0 - limit)

GetStats ==
  [total_published       |-> stats.total_published,
   total_delivered       |-> stats.total_delivered,
   total_subscriptions   |-> stats.total_subscriptions,
   current_history_size  |-> Len(event_history),
   active_subscriptions  |-> Len(subscriptions)]

\* position of the publish of event e in the ghost log
PubIndex(e) == CHOOSE i \in 1..Len(pubLog) : pubLog[i].event_id = e.event_id

SubIds == 1..MaxSubs

Ret(op, r) == [op |-> op, result |-> r]

Invocation(sub, e, ok) == [sub_id |-> sub.id, event_id |-> e.event_id, ok |-> ok]

(* ----------------------------- SQLiteQueue ----------------------------- *)
\* queue names are strings; a name is the sequence of its characters
AlnumChars == {"a", "b", "q"}            \* characters with str.isalnum()
Names == {<<"q">>, <<"a", "-", "b">>, <<"a", "_", "b">>}

\* self._safe_name: every character that is not alphanumeric or "_" becomes "_"
SafeName(name) ==
  [i \in DOMAIN name |-> IF name[i] \in AlnumChars \/ name[i] = "_"
                         THEN name[i] ELSE "_"]

\* the tables queue_<suffix> (with queue_<suffix>_history) a database can hold
TableNames == {SafeName(n) : n \in Names}

DbPaths == {"memory", "file"}            \* ":memory:" / a path on disk
DefaultMaxSize == 10000                  \* SQLiteQueue(..., max_size=10000)
Timeouts == {"None", "zero", "positive"} \* get(timeout=None / 0 / x > 0)

\* Python values of the one entry "k" of a message dictionary
PyInt(n)   == <<"int", n>>
PyList(n)  == <<"list", n>>
PyTuple(n) == <<"tuple", n>>
PySet(n)   == <<"set", n>>
NoMessage  == [k |-> <<"None", 0>>]      \* get returning None
Messages   == {[k |-> PyInt(1)], [k |-> PyInt(2)], [k |-> PyTuple(1)],
               [k |-> PySet(1)]}
PlainMessages == {[k |-> PyInt(1)]}

\* json.dumps(message): a set is not serializable, list and tuple both
\* become an array
JsonDumps(m) ==
  CASE m.k[1] = "int"             -> [ok |-> TRUE,  text |-> <<"number", m.k[2]>>]
    [] m.k[1] \in {"list", "tuple"} -> [ok |-> TRUE,  text |-> <<"array", m.k[2]>>]
    [] OTHER                      -> [ok |-> FALSE, text |-> <<"", 0>>]

\* json.loads(message_json): an array is read back as a list
JsonLoads(text) ==
  IF text[1] = "number" THEN [k |-> PyInt(text[2])] ELSE [k |-> PyList(text[2])]

\* the pair of tables queue_<name> and queue_<name>_history right after
\* CREATE TABLE, and the absence of that pair
EmptyTable == [messages |-> <<>>, history |-> <<>>, seq |-> 0]
NoTable    == [messages |-> <<>>, history |-> <<>>, seq |-> 0 - 1]

\* no SQLiteQueue under this name
NoQueue == [exists |-> FALSE, max_size |-> 0, lock |-> NoThread, mem |-> NoTable]

\* the tables the connection of queue `name` works on: those of the file, or
\* those of the private in-memory database of that connection
TableOf(name) == IF db_path = "file" THEN file_db[SafeName(name)] ELSE queues[name].mem

\* SELECT COUNT(*) ... WHERE consumed = 0
Pending(tbl) == {i \in DOMAIN tbl.messages : tbl.messages[i].consumed = 0}
Size(tbl) == Cardinality(Pending(tbl))

Oldest_Newest(tbl) ==
  CHOOSE i \in Pending(tbl) :
    \A j \in Pending(tbl) : tbl.messages[i].id >= tbl.messages[j].id

\* SELECT id, message ... WHERE consumed = 0 ORDER BY id ASC LIMIT 1
Oldest(tbl) ==
  CHOOSE i \in Pending(tbl) :
    \A j \in Pending(tbl) : tbl.messages[i].id <= tbl.messages[j].id

Insert_NoHistory(tbl, text) ==
  [tbl EXCEPT !.messages = Append(@, [id |-> tbl.seq + 1, message |-> text, consumed |-> 0]),
              !.seq = @ + 1]

\* the two INSERTs of put; AUTOINCREMENT hands out seq + 1
Insert(tbl, text) ==
  [messages |-> Append(tbl.messages, [id |-> tbl.seq + 1, message |-> text, consumed |-> 0]),
   history  |-> Append(tbl.history, text),
   seq      |-> tbl.seq + 1]

MarkConsumed_Lost(tbl, i) == tbl

\* UPDATE ... SET consumed = 1 WHERE id = ?
MarkConsumed(tbl, i) ==
  [tbl EXCEPT !.messages =
     [j \in DOMAIN tbl.messages |->
        IF tbl.messages[j].id = tbl.messages[i].id
        THEN [tbl.messages[j] EXCEPT !.consumed = 1] ELSE tbl.messages[j]]]

\* get_history(): SELECT message FROM ..._history ORDER BY id ASC, decoded
GetHistory(tbl) == [i \in DOMAIN tbl.history |-> JsonLoads(tbl.history[i])]

QCanAcquire_NoMutex(t, name) == TRUE

\* thread t can enter `with self._lock` of queue `name`
QCanAcquire(t, name) == queues[name].lock = NoThread

\* the tables of queue `name` become tbl and its lock goes to holder lk
StoreTable(name, tbl, lk) ==
  /\ file_db' = IF db_path = "file" THEN [file_db EXCEPT ![SafeName(name)] = tbl]
                ELSE file_db
  /\ queues' = [queues EXCEPT ![name] =
                  [@ EXCEPT !.mem = IF db_path = "file" THEN @ ELSE tbl, !.lock = lk]]

\* SQLiteQueue.__init__ and _init_db: a connection to db_path, and CREATE
\* TABLE IF NOT EXISTS for both tables
NewQueue(name, max_size) ==
  [exists |-> TRUE, max_size |-> max_size, lock |-> NoThread,
   mem |-> IF db_path = "file" THEN NoTable ELSE EmptyTable]
CreateTables(db, name) ==
  IF db_path = "file" /\ db[SafeName(name)] = NoTable
  THEN [db EXCEPT ![SafeName(name)] = EmptyTable] ELSE db

(* ------------------------ generated servants --------------------------- *)
\* the placed instances of the layout whose definition resolves, and the Tag
\* Servants AssetServant._initialize_tag_servants builds for each
Assets  == {"A1", "A2"}
TagsOf(a) == IF a = "A1" THEN <<"A1_g">> ELSE <<"A2_g">>
TagIds  == {"A1_g", "A2_g"}
Servants == Assets \cup TagIds

\* the lifecycle calls a user of the runtime can make
LifecycleOps ==
  {[fn |-> "start_all_servants", obj |-> "service"],
   [fn |-> "stop_all_servants", obj |-> "service"]}
  \cup [fn : {"asset_start", "asset_stop"}, obj : Assets]
  \cup [fn : {"tag_start", "tag_stop"}, obj : TagIds]

(* ------------------- Time-Series Store and generation ------------------ *)
\* AssetServant._initialize_tag_servants: f"{instance_id}_{tag.tag_id}"
TagInstanceId(instance_id, tag_id) == instance_id \o "_" \o tag_id

\* the identity of the Tag Servant modelled on its own
ServantTagId == TagInstanceId("A1", "g")

\* the TagValue objects callers hand to the store: the value is a number,
\* or a list, which SQLite cannot bind ("Error binding parameter")
TagValues ==
  [tag_id : {"temp_001"}, timestamp : {1}, value : Values, type : {"float"}]
  \cup {[tag_id |-> "temp_001", timestamp |-> 1, value |-> 0, type |-> "list"]}
Bindable(tv) == tv.type # "list"

\* the lists passed to write_tag_values
Batches == UNION {[1..n -> TagValues] : n \in 0..MaxBatch}

\* no store call under way
NoStoreCall == [op |-> "none", values |-> <<>>, i |-> 0, count |-> 0, id |-> 0]

\* the asset definitions of the library, by asset id: their tag ids
AssetLibrary == [gauge |-> <<"g">>, pump |-> <<"c">>, valve |-> <<"b_c">>]
DefinitionIds == DOMAIN AssetLibrary

\* AssetLibraryService.get_asset: True when the definition is found
Resolves(ref_asset) == ref_asset \in DefinitionIds

\* instance ids a layout file may carry
GenIds == {"a", "a_b", "p"}
InstanceIds == Assets \cup GenIds

\* Transform(): the default placement
DefaultTransform ==
  [translation |-> <<0, 0, 0>>, rotation |-> <<0, 0, 0>>, scale |-> <<1, 1, 1>>]

\* an argument of update_transform: None (the default), or a list
PyNone == [k |-> "None"]
PyVec(v) == [k |-> "list", v |-> v]

\* `if x:` for such an argument: None and the empty list are false
Truthy(x) == x.k = "list" /\ x.v # <<>>

\* the lists passed as translation, and as rotation or scale
Translations == {<<>>, <<0, 0, 0>>, <<1, 2, 3>>}
Scalings == {<<1, 2, 3>>}

\* no layout loaded
NoLayout == [loaded |-> FALSE, instances |-> <<>>]

\* a layout that places the instances of ids, each referring to the gauge
GaugeLayout(ids) ==
  [loaded |-> TRUE,
   instances |-> [k \in DOMAIN ids |-> [instance_id |-> ids[k], ref_asset |-> "gauge"]]]

(* ------------------------------- Init ---------------------------------- *)
\* InMemoryEventBus.__init__ with a cap among caps; no call under way
InitBus(caps) ==
  /\ max_history_size \in caps
  /\ event_history = <<>>
  /\ subscriptions = <<>>
  /\ lock = NoThread
  /\ stats = [total_published |-> 0, total_delivered |-> 0, total_subscriptions |-> 0]
  /\ pc = [t \in Threads |-> "idle"]
  /\ ev = [t \in Threads |-> NoEvent]
  /\ idx = [t \in Threads |-> 0]
  /\ events_to_replay = [t \in Threads |-> <<>>]
  /\ replay_pos = [t \in Threads |-> 0]
  /\ replay_type = [t \in Threads |-> NoType]
  /\ caller = [t \in Threads |-> "none"]
  /\ last_ret = NoRet
  /\ clock = 1
  /\ next_event_id = 1
  /\ n_replay = 0
  /\ pubLog = <<>>
  /\ invoked = [t \in Threads |-> <<>>]
  /\ last_seen = [s \in SubIds |-> 0]
  /\ n_callbacks_ok = 0

\* TagServant.__init__
InitTag(configs) ==
  /\ is_running = FALSE
  /\ current_value = NoValue
  /\ last_update_time = 0
  /\ tag_config \in configs

\* no queue call under way, no queue built
InitQueue(paths) ==
  /\ db_path \in paths
  /\ file_db = [s \in TableNames |-> NoTable]
  /\ queues = [n \in Names |-> NoQueue]
  /\ qpc = [t \in Threads |-> "idle"]
  /\ qarg = [t \in Threads |-> [name |-> <<>>, message |-> NoMessage,
                                timeout |-> "None", slept |-> FALSE]]
  /\ n_put = 0
  /\ put_ok = <<>>
  /\ get_log = <<>>
  /\ known = {}

\* one SQLiteQueue("q", db_path, max_size) built by its user
InitOneQueue(paths, sizes) ==
  /\ db_path \in paths
  /\ file_db = CreateTables([s \in TableNames |-> NoTable], <<"q">>)
  /\ \E m \in sizes :
       queues = [n \in Names |-> IF n = <<"q">> THEN NewQueue(n, m) ELSE NoQueue]
  /\ qpc = [t \in Threads |-> "idle"]
  /\ qarg = [t \in Threads |-> [name |-> <<>>, message |-> NoMessage,
                                timeout |-> "None", slept |-> FALSE]]
  /\ n_put = 0
  /\ put_ok = <<>>
  /\ get_log = <<>>
  /\ known = {}

\* NDHService.__init__ followed by generate_servants: the registry holds one
\* stopped Asset Servant per instance of `instances`, each with its stopped
\* Tag Servants; no call under way
InitService(instances) ==
  /\ registry = instances
  /\ svc_running = FALSE
  /\ asset_running = [a \in Assets |-> FALSE]
  /\ tag_running = [g \in TagIds |-> FALSE]
  /\ frames = [t \in Threads |-> <<>>]
  /\ call_log = <<>>
  /\ n_created = [s \in Servants |-> 0]
  /\ n_transitions = [s \in Servants |-> 0]
  /\ n_stops = [s \in Servants |-> 0]
  /\ life_log = <<>>
  /\ transform = [a \in InstanceIds |-> DefaultTransform]
  /\ fdl = IF instances = <<>> THEN NoLayout ELSE GaugeLayout(instances)
  /\ tag_servants = [a \in InstanceIds |->
                       IF \E k \in DOMAIN instances : instances[k] = a
                       THEN AssetLibrary["gauge"] ELSE <<>>]
  /\ event_ids = <<>>

\* SQLiteTSDB.__init__: an empty table; the Tag Servant has a store of
\* `stores` attached ("None": no store); no store call under way
InitStore(stores) ==
  /\ tsdb \in stores
  /\ tag_values = <<>>
  /\ payloads = <<>>
  /\ tpc = [t \in Threads |-> "idle"]
  /\ targ = [t \in Threads |-> NoStoreCall]
  /\ n_writes = 0

NoStore == InitStore({"None"})
NoServants == InitService(<<>>)
\* bus and Tag Servant alone: no queue, no generated servant
NoQueues == InitQueue({"file"})
Init ==
  InitBus(0..MaxCap) /\ InitTag({DefaultTagConfig}) /\ NoQueues /\ NoServants /\ NoStore

(* ----------------------------- TagServant ------------------------------ *)
\* (variant: update_value without the running check)
UpdateAccepted_AnyState(v) ==
  ~(/\ tag_config.value_change_threshold # NoValue
    /\ current_value # NoValue
    /\ Abs(v - current_value) < tag_config.value_change_threshold)

\* (variant: update_value without the threshold test)
UpdateAccepted_NoThreshold(v) == is_running

\* (variant: update_value that drops a value equal to the current one)
UpdateAccepted_DropRepeats(v) ==
  /\ is_running
  /\ v # current_value
  /\ ~(/\ tag_config.value_change_threshold # NoValue
       /\ current_value # NoValue
       /\ Abs(v - current_value) < tag_config.value_change_threshold)

\* update_value goes past `if not self.is_running: return` and past the
\* threshold test (a change smaller than the threshold is dropped)
UpdateAccepted(v) ==
  /\ is_running
  /\ ~(/\ tag_config.value_change_threshold # NoValue
       /\ current_value # NoValue
       /\ Abs(v - current_value) < tag_config.value_change_threshold)

\* update_value goes on to `self._write_to_tsdb(value)` and that to
\* write_tag_value: write-through is on and a store is attached
WriteThrough == tag_config.auto_write_tsdb /\ tsdb # "None"

\* the payload _publish_tag_value_changed gives its event
ValueChangedPayload(id, old_value, new_value, time) ==
  [event_id |-> id, event_type |-> "TagValueChanged", source |-> ServantTagId,
   old_value |-> old_value, new_value |-> new_value, timestamp |-> time]

(* ----------------------------- SQLiteTSDB ------------------------------ *)
\* cursor.execute("INSERT INTO tag_values ..."): a new row in the
\* connection's open transaction (batch: the write_tag_values call it is of)
InsertRow(rows, tag_id, timestamp, value, batch) ==
  Append(rows, [tag_id |-> tag_id, timestamp |-> timestamp, value |-> value,
                committed |-> FALSE, batch |-> batch])

\* self.conn.commit(): the open transaction of the one connection ends,
\* whichever calls inserted its rows
Commit(rows) == [k \in DOMAIN rows |-> [rows[k] EXCEPT !.committed = TRUE]]

\* self.conn.rollback(): the rows of the open transaction are gone
Rollback(rows) == SelectSeq(rows, LAMBDA r : r.committed)

\* the rows a query of tag_id reads (the connection sees its open transaction)
RowsOf(rows, tag_id) == SelectSeq(rows, LAMBDA r : r.tag_id = tag_id)

\* write_tag_value(tv): the INSERT; a value that cannot be bound raises,
\* the except block prints and returns False
WriteTagValueCall(t, tv) ==
  /\ pc[t] = "idle"
  /\ tpc[t] = "idle"
  /\ n_writes < MaxStoreCalls
  /\ n_writes' = n_writes + 1
  /\ IF Bindable(tv)
     THEN /\ tag_values' = InsertRow(tag_values, tv.tag_id, tv.timestamp, tv.value, 0)
          /\ tpc' = [tpc EXCEPT ![t] = "commit"]
          /\ last_ret' = NoRet
     ELSE /\ last_ret' = [op |-> "write_tag_value", result |-> FALSE]
          /\ UNCHANGED <<tag_values, tpc>>
  /\ UNCHANGED <<busVars, threadVars, ghostVars, tagVars, queueVars, svcVars, lifeVars,
                 genVars, tsdb, payloads, targ>>

\* ... its commit, and `return True`
WriteTagValueCommit(t) ==
  /\ tpc[t] = "commit"
  /\ tag_values' = Commit(tag_values)
  /\ tpc' = [tpc EXCEPT ![t] = "idle"]
  /\ last_ret' = [op |-> "write_tag_value", result |-> TRUE]
  /\ UNCHANGED <<busVars, threadVars, ghostVars, tagVars, queueVars, svcVars, lifeVars,
                 genVars, tsdb, payloads, targ, n_writes>>

\* write_tag_values(batch) is entered
WriteTagValuesCall(t, batch) ==
  /\ pc[t] = "idle"
  /\ tpc[t] = "idle"
  /\ n_writes < MaxStoreCalls
  /\ n_writes' = n_writes + 1
  /\ tpc' = [tpc EXCEPT ![t] = "batch"]
  /\ targ' = [targ EXCEPT ![t] = [op |-> "write_tag_values", values |-> batch,
                                  i |-> 1, count |-> 0, id |-> n_writes + 1]]
  /\ last_ret' = NoRet
  /\ UNCHANGED <<busVars, threadVars, ghostVars, tagVars, queueVars, svcVars, lifeVars,
                 genVars, tsdb, tag_values, payloads>>

\* one iteration of its loop (INSERT; count += 1); after the last one the
\* commit and `return count`; an INSERT that raises leads to the except
\* block: rollback, and `return count` as well
WriteTagValuesStep(t) ==
  /\ tpc[t] = "batch"
  /\ LET c == targ[t] IN
     IF c.i > Len(c.values)
     THEN /\ tag_values' = Commit(tag_values)
          /\ tpc' = [tpc EXCEPT ![t] = "idle"]
          /\ targ' = [targ EXCEPT ![t] = NoStoreCall]
          /\ last_ret' = [op |-> "write_tag_values", id |-> c.id, values |-> c.values,
                          failed |-> FALSE, result |-> c.count]
     ELSE IF Bindable(c.values[c.i])
     THEN /\ tag_values' = InsertRow(tag_values, c.values[c.i].tag_id,
                                     c.values[c.i].timestamp, c.values[c.i].value, c.id)
          /\ targ' = [targ EXCEPT ![t] = [c EXCEPT !.i = @ + 1, !.count = @ + 1]]
          /\ last_ret' = NoRet
          /\ UNCHANGED tpc
     ELSE /\ tag_values' = Rollback(tag_values)
          /\ tpc' = [tpc EXCEPT ![t] = "idle"]
          /\ targ' = [targ EXCEPT ![t] = NoStoreCall]
          /\ last_ret' = [op |-> "write_tag_values", id |-> c.id, values |-> c.values,
                          failed |-> TRUE, result |-> c.count]
  /\ UNCHANGED <<busVars, threadVars, ghostVars, tagVars, queueVars, svcVars, lifeVars,
                 genVars, tsdb, payloads, n_writes>>

\* the TagValue objects written where the order of the answers matters: two
\* tags, and timestamps that repeat. The column is TEXT; the numbers stand
\* for the timestamp strings in the column's collating order.
StampedValues ==
  [tag_id : {"temp_001", ServantTagId}, timestamp : 1..MaxTime, value : Values,
   type : {"float"}]

\* SELECT ... WHERE tag_id = ? ORDER BY timestamp DESC LIMIT 1 is answered by
\* idx_tag_timestamp read backwards; index entries with equal (tag_id,
\* timestamp) are ordered by rowid, so of the rows with the greatest timestamp
\* the one inserted last comes first. The answer is the position of the row
\* in the table, 0 when fetchone() returns None.
LatestRow_FirstOfTies(rows, tag_id) ==
  LET ks == {k \in DOMAIN rows : rows[k].tag_id = tag_id} IN
  IF ks = {} THEN 0
  ELSE CHOOSE k \in ks : \A j \in ks :
         \/ rows[j].timestamp < rows[k].timestamp
         \/ rows[j].timestamp = rows[k].timestamp /\ j >= k
LatestRow(rows, tag_id) ==
  LET ks == {k \in DOMAIN rows : rows[k].tag_id = tag_id} IN
  IF ks = {} THEN 0
  ELSE CHOOSE k \in ks : \A j \in ks :
         \/ rows[j].timestamp < rows[k].timestamp
         \/ rows[j].timestamp = rows[k].timestamp /\ j <= k

\* query_latest_value(tag_id): the TagValue built from the row, or None
QueryLatestValue(t, tag_id) ==
  /\ pc[t] = "idle"
  /\ tpc[t] = "idle"
  /\ LET k == LatestRow(tag_values, tag_id) IN
     last_ret' = IF k = 0
                 THEN [op |-> "query_latest_value", tag_id |-> tag_id, row |-> 0,
                       result |-> "None"]
                 ELSE [op |-> "query_latest_value", tag_id |-> tag_id, row |-> k,
                       result |-> [tag_id |-> tag_values[k].tag_id,
                                   timestamp |-> tag_values[k].timestamp,
                                   value |-> tag_values[k].value]]
  /\ UNCHANGED <<busVars, threadVars, ghostVars, tagVars, queueVars, svcVars, lifeVars,
                 genVars, storeVars>>

(* ---------------------------- id_generator ----------------------------- *)
\* uuid.uuid4().int, as far as generate_uuidv7 reads it: bits 52..61 (high)
\* and bits 0..51 (low) are random, bits 62..63 are uuid4's variant, binary 10
RandomBits == [high : 0..1, low : 0..1]
Uuid4Variant == 2

\* generate_uuidv7 with time.time() * 1000 = timestamp_ms: the fields of the
\* 128-bit number from the most significant down: 48 bits of timestamp, the
\* version 7, 12 bits taken from bits 52..63 of the random number (its
\* variant bits, then `high`), the variant 2, and the low 62 bits of the same
\* random number (`high`, then `low`)
GenerateUuidv7(timestamp_ms, random_bits) ==
  <<timestamp_ms, 7, Uuid4Variant, random_bits.high, 2, random_bits.high,
    random_bits.low>>

\* str(uuid.UUID(int=...)) is fixed-width lower-case hex, so two ids compare
\* as strings the way their fields compare from the left
IdLess(a, b) ==
  \E k \in DOMAIN a :
    /\ a[k] < b[k]
    /\ \A j \in 1..(k - 1) : a[j] = b[j]

\* a servant's _publish_* builds its Event: event_id=generate_uuidv7()
GenerateEventId(random_bits) ==
  /\ Len(event_ids) < MaxIds
  /\ event_ids' = Append(event_ids, GenerateUuidv7(clock, random_bits))
  /\ last_ret' = NoRet
  /\ UNCHANGED <<busVars, threadVars, ghostVars, tagVars, queueVars, svcVars, lifeVars,
                 storeVars, transform, fdl, tag_servants>>

(* ------------------------------ publish -------------------------------- *)
\* the caller builds the Event (its id and timestamp are taken now) and
\* calls publish, which reaches `with self.lock`
EnterPublish(t, ty, from) ==
  /\ next_event_id <= MaxPublish
  /\ ev' = [ev EXCEPT ![t] = [event_id |-> next_event_id, event_type |-> ty,
                              timestamp |-> clock]]
  /\ next_event_id' = next_event_id + 1
  /\ pc' = [pc EXCEPT ![t] = "publish"]
  /\ caller' = [caller EXCEPT ![t] = from]
  /\ last_ret' = NoRet

PublishCall(t, ty) ==
  /\ UNCHANGED <<queueVars, svcVars, lifeVars, storeVars, genVars>>
  /\ pc[t] = "idle"
  /\ EnterPublish(t, ty, "none")
  /\ UNCHANGED <<busVars, idx, events_to_replay, replay_pos, replay_type, clock,
                 n_replay, pubLog, invoked, last_seen, n_callbacks_ok, tagVars>>

\* lock taken; history append + eviction; total_published += 1
PublishAcquire(t) ==
  /\ UNCHANGED <<queueVars, svcVars, lifeVars, storeVars, genVars>>
  /\ pc[t] = "publish"
  /\ CanAcquire(t)
  /\ lock' = t
  /\ event_history' = HistoryAppend(event_history, ev[t], max_history_size)
  /\ stats' = [stats EXCEPT !.total_published = @ + 1]
  /\ pubLog' = Append(pubLog, ev[t])
  /\ invoked' = [invoked EXCEPT ![t] = <<>>]
  /\ idx' = [idx EXCEPT ![t] = 1]
  /\ pc' = [pc EXCEPT ![t] = "deliver"]
  /\ last_ret' = NoRet
  /\ UNCHANGED <<max_history_size, subscriptions, ev, events_to_replay, replay_pos,
                 replay_type, caller, clock, next_event_id, n_replay, last_seen,
                 n_callbacks_ok, tagVars>>

\* publish is left, by `return True` or by an exception: the with-block
\* releases the lock and control is back in the caller
LeavePublish(t, result) ==
  /\ lock' = NoThread
  /\ pc' = [pc EXCEPT ![t] =
       IF caller[t] = "tag_stop" /\ result = "True" THEN "tag_stop_end"
       ELSE IF caller[t] = "update_value" /\ result = "True" /\ WriteThrough
       THEN "tag_write" ELSE "idle"]
  /\ ev' = [ev EXCEPT ![t] = NoEvent]
  /\ idx' = [idx EXCEPT ![t] = 0]
  /\ caller' = [caller EXCEPT ![t] = "none"]
  /\ invoked' = [invoked EXCEPT ![t] = <<>>]
  /\ last_ret' = [op |-> "publish", result |-> result, event |-> ev[t],
                  invoked |-> invoked[t]]

\* the loop skips sub (no match, or the predicate returned false)
Skipped(t) ==
  /\ idx' = [idx EXCEPT ![t] = @ + 1]
  /\ last_ret' = NoRet
  /\ UNCHANGED <<lock, stats, pc, ev, caller, invoked, last_seen, n_callbacks_ok>>

\* the callback of sub was called and came back, normally (ok) or with an
\* Exception that the try block swallowed; publish counts the normal returns
CallbackReturned(t, sub, ok, counted) ==
  /\ idx' = [idx EXCEPT ![t] = @ + 1]
  /\ invoked' = [invoked EXCEPT ![t] = Append(@, Invocation(sub, ev[t], ok))]
  /\ last_seen' = IF counted THEN [last_seen EXCEPT ![sub.id] = PubIndex(ev[t])]
                  ELSE last_seen
  /\ stats' = IF counted /\ ok THEN [stats EXCEPT !.total_delivered = @ + 1] ELSE stats
  /\ n_callbacks_ok' = IF ok THEN n_callbacks_ok + 1 ELSE n_callbacks_ok
  /\ last_ret' = NoRet
  /\ UNCHANGED <<lock, pc, ev, caller>>

\* the callback calls into the bus and waits at `with self.lock` for the lock
\* its own thread holds
CallbackBlocked(t) ==
  /\ pc' = [pc EXCEPT ![t] = "blocked"]
  /\ last_ret' = NoRet
  /\ UNCHANGED <<lock, stats, ev, idx, caller, invoked, last_seen, n_callbacks_ok>>

\* sub_info["callback"](event) inside the try block
RunCallback(t, sub, counted) ==
  \/ /\ sub.callback \in CallbackKinds
     /\ CallbackReturned(t, sub, sub.callback = "ok", counted)
     /\ UNCHANGED tagVars
  \/ /\ sub.callback \in ReentrantKinds
     /\ IF CanAcquire(t) THEN CallbackReturned(t, sub, TRUE, counted)
                         ELSE CallbackBlocked(t)
     /\ UNCHANGED tagVars
  \/ /\ sub.callback = "update_value"
     /\ \E v \in Values :
          IF UpdateAccepted(v)
          THEN /\ current_value' = v
               /\ last_update_time' = clock
               /\ UNCHANGED <<is_running, tag_config>>
               /\ IF tag_config.auto_publish_events /\ ~CanAcquire(t)
                  THEN CallbackBlocked(t)      \* _publish_tag_value_changed
                  ELSE CallbackReturned(t, sub, TRUE, counted)
          ELSE /\ UNCHANGED tagVars
               /\ CallbackReturned(t, sub, TRUE, counted)

\* one iteration of `for sub_id, sub_info in self.subscriptions.items()`
PublishDeliver(t) ==
  /\ UNCHANGED <<queueVars, svcVars, lifeVars, storeVars, genVars>>
  /\ pc[t] = "deliver"
  /\ idx[t] <= Len(subscriptions)
  /\ LET sub == subscriptions[idx[t]]
         out == DispatchOutcome(sub, ev[t])
     IN  \/ /\ out = "skip"
            /\ Skipped(t)
            /\ UNCHANGED tagVars
         \/ /\ out = "filter_raise"
            \* the predicate is called outside the try: its exception leaves publish
            /\ LeavePublish(t, "raised")
            /\ UNCHANGED <<stats, last_seen, n_callbacks_ok, tagVars>>
         \/ /\ out = "call"
            /\ RunCallback(t, sub, TRUE)
  /\ UNCHANGED <<max_history_size, event_history, subscriptions, events_to_replay,
                 replay_pos, replay_type, clock, next_event_id, n_replay, pubLog>>

\* `return True`
PublishReturn(t) ==
  /\ UNCHANGED <<queueVars, svcVars, lifeVars, storeVars, genVars>>
  /\ pc[t] = "deliver"
  /\ idx[t] > Len(subscriptions)
  /\ LeavePublish(t, "True")
  /\ UNCHANGED <<max_history_size, event_history, subscriptions, stats,
                 events_to_replay, replay_pos, replay_type, clock, next_event_id,
                 n_replay, pubLog, last_seen, n_callbacks_ok, tagVars>>

(* ------------------------ subscribe / unsubscribe ---------------------- *)
Subscribe(t, pattern, callback, filter_func) ==
  /\ UNCHANGED <<queueVars, svcVars, lifeVars, storeVars, genVars>>
  /\ pc[t] = "idle"
  /\ CanAcquire(t)
  /\ stats.total_subscriptions < MaxSubs
  /\ subscriptions' = Append(subscriptions,
        [id |-> stats.total_subscriptions + 1, event_type |-> pattern,
         callback |-> callback, filter_func |-> filter_func])
  /\ stats' = [stats EXCEPT !.total_subscriptions = @ + 1]
  /\ last_ret' = Ret("subscribe", stats.total_subscriptions + 1)
  /\ UNCHANGED <<max_history_size, event_history, lock, threadVars, ghostVars, tagVars>>

Unsubscribe(t, id) ==
  /\ UNCHANGED <<queueVars, svcVars, lifeVars, storeVars, genVars>>
  /\ pc[t] = "idle"
  /\ CanAcquire(t)
  /\ IF \E i \in 1..Len(subscriptions) : subscriptions[i].id = id
     THEN /\ subscriptions' = RemoveAt(subscriptions,
                 CHOOSE i \in 1..Len(subscriptions) : subscriptions[i].id = id)
          /\ last_ret' = Ret("unsubscribe", "True")
     ELSE /\ subscriptions' = subscriptions
          /\ last_ret' = Ret("unsubscribe", "False")
  /\ UNCHANGED <<max_history_size, event_history, lock, stats, threadVars, ghostVars, tagVars>>

(* ---------------------------- replay_events ---------------------------- *)
\* events_to_replay = self.get_event_history(..., limit=self.max_history_size)
ReplayCall(t, ty) ==
  /\ UNCHANGED <<queueVars, svcVars, lifeVars, storeVars, genVars>>
  /\ pc[t] = "idle"
  /\ CanAcquire(t)
  /\ n_replay < MaxReplay
  /\ n_replay' = n_replay + 1
  /\ events_to_replay' = [events_to_replay EXCEPT ![t] =
        GetEventHistory(event_history, ty, NoTime, NoTime, max_history_size)]
  /\ replay_pos' = [replay_pos EXCEPT ![t] = 1]
  /\ replay_type' = [replay_type EXCEPT ![t] = ty]
  /\ pc' = [pc EXCEPT ![t] = "replay_loop"]
  /\ invoked' = [invoked EXCEPT ![t] = <<>>]
  /\ last_ret' = NoRet
  /\ UNCHANGED <<busVars, ev, idx, caller, clock, next_event_id, pubLog, last_seen,
                 n_callbacks_ok, tagVars>>

ReplayAcquire_Republish(t) ==
  /\ UNCHANGED <<queueVars, svcVars, lifeVars, storeVars, genVars>>
  /\ pc[t] = "replay_loop"
  /\ replay_pos[t] <= Len(events_to_replay[t])
  /\ CanAcquire(t)
  /\ lock' = t
  /\ ev' = [ev EXCEPT ![t] = events_to_replay[t][replay_pos[t]]]
  /\ event_history' = HistoryAppend(event_history, events_to_replay[t][replay_pos[t]],
                                    max_history_size)
  /\ idx' = [idx EXCEPT ![t] = 1]
  /\ pc' = [pc EXCEPT ![t] = "replay_deliver"]
  /\ last_ret' = NoRet
  /\ UNCHANGED <<max_history_size, subscriptions, stats, events_to_replay, replay_pos,
                 replay_type, caller, ghostVars, tagVars>>

\* `for event in events_to_replay: with self.lock:`
ReplayAcquire(t) ==
  /\ UNCHANGED <<queueVars, svcVars, lifeVars, storeVars, genVars>>
  /\ pc[t] = "replay_loop"
  /\ replay_pos[t] <= Len(events_to_replay[t])
  /\ CanAcquire(t)
  /\ lock' = t
  /\ ev' = [ev EXCEPT ![t] = events_to_replay[t][replay_pos[t]]]
  /\ idx' = [idx EXCEPT ![t] = 1]
  /\ pc' = [pc EXCEPT ![t] = "replay_deliver"]
  /\ last_ret' = NoRet
  /\ UNCHANGED <<max_history_size, event_history, subscriptions, stats,
                 events_to_replay, replay_pos, replay_type, caller, ghostVars, tagVars>>

\* one iteration of the inner subscription loop of replay_events
ReplayDeliver(t) ==
  /\ UNCHANGED <<queueVars, svcVars, lifeVars, storeVars, genVars>>
  /\ pc[t] = "replay_deliver"
  /\ idx[t] <= Len(subscriptions)
  /\ LET sub == subscriptions[idx[t]]
         out == DispatchOutcome(sub, ev[t])
     IN  \/ /\ out = "skip"
            /\ Skipped(t)
            /\ UNCHANGED tagVars
         \/ /\ out = "filter_raise"
            \* the predicate's exception leaves replay_events
            /\ lock' = NoThread
            /\ pc' = [pc EXCEPT ![t] = "idle"]
            /\ ev' = [ev EXCEPT ![t] = NoEvent]
            /\ idx' = [idx EXCEPT ![t] = 0]
            /\ invoked' = [invoked EXCEPT ![t] = <<>>]
            /\ last_ret' = [op |-> "replay_events", result |-> "raised",
                            event_type |-> replay_type[t],
                            events |-> events_to_replay[t], invoked |-> invoked[t]]
            /\ UNCHANGED <<stats, caller, last_seen, n_callbacks_ok, tagVars>>
         \/ /\ out = "call"
            \* as in publish, but without total_delivered += 1
            /\ RunCallback(t, sub, FALSE)
  /\ UNCHANGED <<max_history_size, event_history, subscriptions, events_to_replay,
                 replay_pos, replay_type, clock, next_event_id, n_replay, pubLog>>

\* the with-block of one replayed event ends; on to the next event
ReplayRelease(t) ==
  /\ UNCHANGED <<queueVars, svcVars, lifeVars, storeVars, genVars>>
  /\ pc[t] = "replay_deliver"
  /\ idx[t] > Len(subscriptions)
  /\ lock' = NoThread
  /\ replay_pos' = [replay_pos EXCEPT ![t] = @ + 1]
  /\ ev' = [ev EXCEPT ![t] = NoEvent]
  /\ idx' = [idx EXCEPT ![t] = 0]
  /\ pc' = [pc EXCEPT ![t] = "replay_loop"]
  /\ last_ret' = NoRet
  /\ UNCHANGED <<max_history_size, event_history, subscriptions, stats,
                 events_to_replay, replay_type, caller, ghostVars, tagVars>>

\* the outer loop is exhausted: replay_events returns None
ReplayReturn(t) ==
  /\ UNCHANGED <<queueVars, svcVars, lifeVars, storeVars, genVars>>
  /\ pc[t] = "replay_loop"
  /\ replay_pos[t] > Len(events_to_replay[t])
  /\ pc' = [pc EXCEPT ![t] = "idle"]
  /\ invoked' = [invoked EXCEPT ![t] = <<>>]
  /\ last_ret' = [op |-> "replay_events", result |-> "None",
                  event_type |-> replay_type[t],
                  events |-> events_to_replay[t], invoked |-> invoked[t]]
  /\ UNCHANGED <<busVars, ev, idx, events_to_replay, replay_pos, replay_type, caller,
                 clock, next_event_id, n_replay, pubLog, last_seen, n_callbacks_ok,
                 tagVars>>

(* ------------------------- TagServant methods -------------------------- *)
\* start(): no-op when running; else is_running = True, then TagCreated
TagStart(t) ==
  /\ UNCHANGED <<queueVars, svcVars, lifeVars, storeVars, genVars>>
  /\ pc[t] = "idle"
  /\ IF is_running
     THEN /\ last_ret' = Ret("start", "None")
          /\ UNCHANGED <<threadVars, next_event_id, is_running>>
     ELSE /\ is_running' = TRUE
          /\ IF tag_config.auto_publish_events
             THEN EnterPublish(t, "TagCreated", "tag_start")
             ELSE /\ last_ret' = Ret("start", "None")
                  /\ UNCHANGED <<pc, ev, caller, next_event_id>>
          /\ UNCHANGED <<idx, events_to_replay, replay_pos, replay_type>>
  /\ UNCHANGED <<busVars, clock, n_replay, pubLog, invoked, last_seen, n_callbacks_ok,
                 current_value, last_update_time, tag_config>>

\* stop(): no-op when not running; else TagDeleted is published first
TagStop(t) ==
  /\ UNCHANGED <<queueVars, svcVars, lifeVars, storeVars, genVars>>
  /\ pc[t] = "idle"
  /\ IF ~is_running
     THEN /\ last_ret' = Ret("stop", "None")
          /\ UNCHANGED <<threadVars, next_event_id>>
     ELSE /\ IF tag_config.auto_publish_events
             THEN EnterPublish(t, "TagDeleted", "tag_stop")
             ELSE /\ pc' = [pc EXCEPT ![t] = "tag_stop_end"]
                  /\ last_ret' = NoRet
                  /\ UNCHANGED <<ev, caller, next_event_id>>
          /\ UNCHANGED <<idx, events_to_replay, replay_pos, replay_type>>
  /\ UNCHANGED <<busVars, clock, n_replay, pubLog, invoked, last_seen, n_callbacks_ok,
                 tagVars>>

\* ... and only then `self.is_running = False`
TagStopEnd(t) ==
  /\ UNCHANGED <<queueVars, svcVars, lifeVars, storeVars, genVars>>
  /\ pc[t] = "tag_stop_end"
  /\ is_running' = FALSE
  /\ pc' = [pc EXCEPT ![t] = "idle"]
  /\ last_ret' = Ret("stop", "None")
  /\ UNCHANGED <<busVars, ev, idx, events_to_replay, replay_pos, replay_type, caller,
                 ghostVars, current_value, last_update_time, tag_config>>

\* update_value(v) called by a thread of its own
TagUpdateValue(t, v) ==
  /\ UNCHANGED <<queueVars, svcVars, lifeVars, genVars, tsdb, tag_values, tpc, n_writes>>
  /\ pc[t] = "idle"
  /\ tpc[t] = "idle"
  /\ IF UpdateAccepted(v)
     THEN /\ WriteThrough => Len(tag_values) < MaxRows
          /\ current_value' = v
          /\ last_update_time' = clock
          /\ targ' = IF WriteThrough       \* `value`, kept for the write
                     THEN [targ EXCEPT ![t] = [NoStoreCall EXCEPT !.values = <<v>>]]
                     ELSE targ
          /\ IF tag_config.auto_publish_events
             THEN /\ EnterPublish(t, "TagValueChanged", "update_value")
                  /\ payloads' = Append(payloads,
                        ValueChangedPayload(next_event_id, current_value, v, clock))
             ELSE /\ pc' = [pc EXCEPT ![t] = IF WriteThrough THEN "tag_write" ELSE "idle"]
                  /\ last_ret' = IF WriteThrough THEN NoRet
                                 ELSE Ret("update_value", "None")
                  /\ UNCHANGED <<ev, caller, next_event_id, payloads>>
          /\ UNCHANGED <<idx, events_to_replay, replay_pos, replay_type>>
     ELSE /\ last_ret' = Ret("update_value", "None")
          /\ UNCHANGED <<threadVars, next_event_id, current_value, last_update_time,
                         payloads, targ>>
  /\ UNCHANGED <<busVars, clock, n_replay, pubLog, invoked, last_seen, n_callbacks_ok,
                 is_running, tag_config>>

\* _write_to_tsdb(value) -> write_tag_value: the INSERT
TagWrite(t) ==
  /\ pc[t] = "tag_write"
  /\ tag_values' = InsertRow(tag_values, ServantTagId,
                             IF last_update_time # NoTime THEN last_update_time ELSE clock,
                             targ[t].values[1], 0)
  /\ pc' = [pc EXCEPT ![t] = "tag_commit"]
  /\ last_ret' = NoRet
  /\ UNCHANGED <<busVars, ev, idx, events_to_replay, replay_pos, replay_type, caller,
                 ghostVars, tagVars, queueVars, svcVars, lifeVars, genVars, tsdb,
                 payloads, tpc, targ, n_writes>>

\* ... its commit, and update_value returns
TagCommit(t) ==
  /\ pc[t] = "tag_commit"
  /\ tag_values' = Commit(tag_values)
  /\ pc' = [pc EXCEPT ![t] = "idle"]
  /\ targ' = [targ EXCEPT ![t] = NoStoreCall]
  /\ last_ret' = Ret("update_value", "None")
  /\ UNCHANGED <<busVars, ev, idx, events_to_replay, replay_pos, replay_type, caller,
                 ghostVars, tagVars, queueVars, svcVars, lifeVars, genVars, tsdb,
                 payloads, tpc, n_writes>>

(* ------------------------------- queries ------------------------------- *)
\* (a query changes nothing but last_ret, so a query right after another one
\* reaches no state the first would not reach from the same bus: skipped)
GetEventHistoryCall(t, ty, st, en, limit) ==
  /\ UNCHANGED <<queueVars, svcVars, lifeVars, storeVars, genVars>>
  /\ pc[t] = "idle"
  /\ CanAcquire(t)
  /\ last_ret.op # "get_event_history"
  /\ last_ret' = [op |-> "get_event_history", event_type |-> ty, start_time |-> st,
                  end_time |-> en, limit |-> limit,
                  result |-> GetEventHistory(event_history, ty, st, en, limit)]
  /\ UNCHANGED <<busVars, threadVars, ghostVars, tagVars>>

GetStatsCall(t) ==
  /\ UNCHANGED <<queueVars, svcVars, lifeVars, storeVars, genVars>>
  /\ pc[t] = "idle"
  /\ CanAcquire(t)
  /\ last_ret' = Ret("get_stats", GetStats)
  /\ UNCHANGED <<busVars, threadVars, ghostVars, tagVars>>

\* time passes between two datetime.utcnow() readings
Tick ==
  /\ UNCHANGED <<queueVars, svcVars, lifeVars, storeVars, genVars>>
  /\ clock < MaxTime
  /\ clock' = clock + 1
  /\ last_ret' = NoRet
  /\ UNCHANGED <<busVars, threadVars, next_event_id, n_replay, pubLog, invoked,
                 last_seen, n_callbacks_ok, tagVars>>

(* --------------------------- SQLiteQueue calls ------------------------- *)
\* put, up to the capacity test: the lock is taken, and a full queue raises
\* ValueError (the with-block releases the lock)
QPutAcquire(t, name, m) ==
  /\ qpc[t] = "idle"
  /\ queues[name].exists
  /\ n_put < MaxQueuePut
  /\ QCanAcquire(t, name)
  /\ n_put' = n_put + 1
  /\ IF TableOf(name) = NoTable /\ queues[name].max_size > 0
     THEN /\ last_ret' = [op |-> "put", name |-> name, message |-> m,
                          result |-> "OperationalError"]
          /\ UNCHANGED <<file_db, queues, qpc, qarg>>
     ELSE IF queues[name].max_size > 0 /\ Size(TableOf(name)) >= queues[name].max_size
     THEN /\ last_ret' = [op |-> "put", name |-> name, message |-> m,
                          result |-> "ValueError"]
          /\ UNCHANGED <<file_db, queues, qpc, qarg>>
     ELSE /\ queues' = [queues EXCEPT ![name].lock = t]
          /\ qpc' = [qpc EXCEPT ![t] = "put"]
          /\ qarg' = [qarg EXCEPT ![t] = [@ EXCEPT !.name = name, !.message = m]]
          /\ last_ret' = NoRet
          /\ UNCHANGED file_db
  /\ UNCHANGED <<db_path, put_ok, get_log, known, busVars, threadVars, ghostVars, tagVars,
                 svcVars,
                 lifeVars, storeVars, genVars>>

\* put, from json.dumps on: both INSERTs and the commit, or TypeError before
\* anything is written; the lock is released
QPutInsert(t) ==
  /\ qpc[t] = "put"
  /\ LET name == qarg[t].name
         enc  == JsonDumps(qarg[t].message)
         res  == IF ~enc.ok THEN "TypeError"
                 ELSE IF TableOf(name) = NoTable THEN "OperationalError" ELSE "None"
     IN  /\ IF res = "None" THEN StoreTable(name, Insert(TableOf(name), enc.text), NoThread)
                            ELSE StoreTable(name, TableOf(name), NoThread)
         /\ put_ok' = IF res = "None"
                      THEN Append(put_ok, [name |-> name, message |-> qarg[t].message])
                      ELSE put_ok
         /\ last_ret' = [op |-> "put", name |-> name, message |-> qarg[t].message,
                         result |-> res]
  /\ qpc' = [qpc EXCEPT ![t] = "idle"]
  /\ qarg' = [qarg EXCEPT ![t] = [@ EXCEPT !.message = NoMessage]]
  /\ UNCHANGED <<db_path, n_put, get_log, known, busVars, threadVars, ghostVars, tagVars,
                 svcVars,
                 lifeVars, storeVars, genVars>>

\* get(timeout) is called: start_time is taken and the loop entered
QGetCall(t, name, timeout) ==
  /\ qpc[t] = "idle"
  /\ queues[name].exists
  /\ qpc' = [qpc EXCEPT ![t] = "poll"]
  /\ qarg' = [qarg EXCEPT ![t] = [name |-> name, message |-> NoMessage,
                                  timeout |-> timeout, slept |-> FALSE]]
  /\ last_ret' = NoRet
  /\ UNCHANGED <<db_path, file_db, queues, n_put, put_ok, get_log, known, busVars,
                 threadVars, ghostVars, tagVars, svcVars,
                 lifeVars, storeVars, genVars>>

\* the call of thread t is over and returned r
QGetLeave(t, r, id) ==
  /\ qpc' = [qpc EXCEPT ![t] = "idle"]
  /\ last_ret' = [op |-> "get", name |-> qarg[t].name, timeout |-> qarg[t].timeout,
                  result |-> r, id |-> id, slept |-> qarg[t].slept, thread |-> t]
  /\ qarg' = [qarg EXCEPT ![t] = [@ EXCEPT !.slept = FALSE]]

\* the holder of the queue lock while get is in time.sleep(0.01): the
\* `with self._lock` block is left before the timeout test and the sleep
LockWhileAsleep_Held(t) == t
LockWhileAsleep(t) == NoThread

\* one turn of `while True`: under the lock the oldest pending row is marked
\* consumed and returned; with none, the timeout decides between returning
\* None and time.sleep(0.01)
QGetPoll(t) ==
  /\ qpc[t] = "poll"
  /\ QCanAcquire(t, qarg[t].name)
  /\ LET name == qarg[t].name
         tbl  == TableOf(name)
     IN  IF tbl = NoTable
         THEN /\ QGetLeave(t, "OperationalError", 0)
              /\ UNCHANGED <<file_db, queues, get_log>>
         ELSE IF Pending(tbl) # {}
         THEN LET i == Oldest(tbl) IN
              /\ StoreTable(name, MarkConsumed(tbl, i), NoThread)
              /\ QGetLeave(t, JsonLoads(tbl.messages[i].message), tbl.messages[i].id)
              /\ get_log' = Append(get_log, [name |-> name, id |-> tbl.messages[i].id,
                                     result |-> JsonLoads(tbl.messages[i].message)])
         ELSE /\ \/ /\ qarg[t].timeout \in {"zero", "positive"}  \* elapsed >= timeout
                    /\ QGetLeave(t, NoMessage, 0)
                    /\ UNCHANGED queues
                 \/ /\ qarg[t].timeout \in {"None", "positive"}
                    /\ qpc' = [qpc EXCEPT ![t] = "sleep"]
                    /\ queues' = [queues EXCEPT ![name].lock = LockWhileAsleep(t)]
                    /\ last_ret' = NoRet
                    /\ UNCHANGED qarg
              /\ UNCHANGED <<file_db, get_log>>
  /\ UNCHANGED <<db_path, n_put, put_ok, known, busVars, threadVars, ghostVars,
                 tagVars, svcVars,
                 lifeVars, storeVars, genVars>>

QGetWake_Oversleep(t) == qpc[t] = "sleep" /\ UNCHANGED vars

\* time.sleep(0.01) is over: back to the top of the loop
QGetWake(t) ==
  /\ qpc[t] = "sleep"
  /\ qpc' = [qpc EXCEPT ![t] = "poll"]
  /\ qarg' = [qarg EXCEPT ![t] = [@ EXCEPT !.slept = TRUE]]
  /\ last_ret' = NoRet
  /\ UNCHANGED <<db_path, file_db, queues, n_put, put_ok, get_log, known, busVars,
                 threadVars, ghostVars, tagVars, svcVars,
                 lifeVars, storeVars, genVars>>

\* size() and get_history() (a query right after the same query is skipped:
\* it changes nothing but last_ret)
QSizeCall(t, name) ==
  /\ qpc[t] = "idle"
  /\ queues[name].exists
  /\ QCanAcquire(t, name)
  /\ last_ret.op # "size"
  /\ last_ret' = [op |-> "size", name |-> name,
                  raised |-> TableOf(name) = NoTable,      \* OperationalError
                  result |-> Size(TableOf(name))]
  /\ UNCHANGED <<queueVars, busVars, threadVars, ghostVars, tagVars, svcVars,
                 lifeVars, storeVars, genVars>>

QGetHistoryCall(t, name) ==
  /\ qpc[t] = "idle"
  /\ queues[name].exists
  /\ QCanAcquire(t, name)
  /\ last_ret.op # "get_history"
  /\ last_ret' = [op |-> "get_history", name |-> name,
                  raised |-> TableOf(name) = NoTable,      \* OperationalError
                  result |-> GetHistory(TableOf(name))]
  /\ UNCHANGED <<queueVars, busVars, threadVars, ghostVars, tagVars, svcVars,
                 lifeVars, storeVars, genVars>>

(* -------------------------- SQLiteQueueManager ------------------------- *)
\* how SQLite reads `DROP TABLE IF EXISTS queue_{name}`: the text after
\* queue_ continues the identifier only while it is alphanumeric or "_"
IsIdentifierTail(name) == \A i \in DOMAIN name : name[i] \in AlnumChars \/ name[i] = "_"

\* s ends with suffix
EndsWith(s, suffix) ==
  /\ Len(s) >= Len(suffix)
  /\ SubSeq(s, Len(s) - Len(suffix) + 1, Len(s)) = suffix

HistorySuffix == <<"_", "h", "i", "s", "t", "o", "r", "y">>

\* the database a new sqlite3.connect(self.db_path) sees: the file, or a new
\* and empty in-memory database
FreshConnection == IF db_path = "file" THEN file_db ELSE [s \in TableNames |-> NoTable]

\* list_queues(): the names of the tables queue_%, without the prefix and
\* without the tables whose name ends in _history
ListQueues ==
  {s \in TableNames : FreshConnection[s] # NoTable /\ ~EndsWith(s, HistorySuffix)}

\* get_queue(name): the registered queue, or a new SQLiteQueue(name, db_path)
GetQueue(t, name) ==
  /\ qpc[t] = "idle"
  /\ IF queues[name].exists
     THEN UNCHANGED <<file_db, queues>>
     ELSE /\ queues' = [queues EXCEPT ![name] = NewQueue(name, DefaultMaxSize)]
          /\ file_db' = CreateTables(file_db, name)
  /\ known' = known \cup {name}
  /\ last_ret' = [op |-> "get_queue", name |-> name, result |-> "queue"]
  /\ UNCHANGED <<db_path, qpc, qarg, n_put, put_ok, get_log, busVars, threadVars,
                 ghostVars, tagVars, svcVars,
                 lifeVars, storeVars, genVars>>

\* delete_queue(name): nothing for a name not in _queues; else both DROP
\* TABLE statements run on a new connection, then `del self._queues[name]`;
\* a name SQLite cannot read as an identifier raises before the del
DeleteQueue(t, name) ==
  /\ \A u \in Threads : qpc[u] = "idle"    \* (no call on a queue is under way)
  /\ IF ~queues[name].exists
     THEN /\ last_ret' = [op |-> "delete_queue", name |-> name, existed |-> FALSE,
                          result |-> "None"]
          /\ UNCHANGED <<file_db, queues, known>>
     ELSE IF ~IsIdentifierTail(name)
     THEN /\ last_ret' = [op |-> "delete_queue", name |-> name, existed |-> TRUE,
                          result |-> "OperationalError"]
          /\ UNCHANGED <<file_db, queues, known>>
     ELSE /\ file_db' = IF db_path = "file" THEN [file_db EXCEPT ![name] = NoTable]
                        ELSE file_db
          /\ queues' = [queues EXCEPT ![name] = NoQueue]
          /\ known' = known \ {name}
          /\ last_ret' = [op |-> "delete_queue", name |-> name, existed |-> TRUE,
                          result |-> "None"]
  /\ UNCHANGED <<db_path, qpc, qarg, n_put, put_ok, get_log, busVars, threadVars,
                 ghostVars, tagVars, svcVars,
                 lifeVars, storeVars, genVars>>

ListQueuesCall(t) ==
  /\ qpc[t] = "idle"
  /\ last_ret.op # "list_queues"
  /\ last_ret' = [op |-> "list_queues", result |-> ListQueues]
  /\ UNCHANGED <<queueVars, busVars, threadVars, ghostVars, tagVars, svcVars,
                 lifeVars, storeVars, genVars>>

(* ------------------- NDHService / AssetServant lifecycle --------------- *)
RECURSIVE Deliver(_, _, _, _)
\* the delivery loop of publish from subscription i on, run to its end: how
\* publish is left, how many callbacks returned normally, which were called
Deliver(subs, e, i, acc) ==
  IF i > Len(subs) THEN acc
  ELSE LET out == DispatchOutcome(subs[i], e) IN
       IF out = "skip" THEN Deliver(subs, e, i + 1, acc)
       ELSE IF out = "filter_raise" THEN [acc EXCEPT !.result = "raised"]
       ELSE Deliver(subs, e, i + 1,
                    [acc EXCEPT !.delivered = IF subs[i].callback = "ok" THEN @ + 1 ELSE @,
                                !.invoked = @ \cup {subs[i].id}])

\* what publishing the next event now does
Delivery(ty) ==
  Deliver(subscriptions,
          [event_id |-> next_event_id, event_type |-> ty, timestamp |-> clock], 1,
          [result |-> "True", delivered |-> 0, invoked |-> {}])

\* a servant builds its event and calls publish; the subscribers' callbacks
\* do not call into bus or servants, so the whole call, made under the bus
\* lock, is one step
PublishWhole(t, ty) ==
  /\ CanAcquire(t)
  /\ LET e == [event_id |-> next_event_id, event_type |-> ty, timestamp |-> clock]
         d == Delivery(ty)
     IN  /\ event_history' = HistoryAppend(event_history, e, max_history_size)
         /\ stats' = [stats EXCEPT !.total_published = @ + 1,
                                   !.total_delivered = @ + d.delivered]
         /\ pubLog' = Append(pubLog, e)
         /\ last_seen' = [x \in SubIds |-> IF x \in d.invoked THEN Len(pubLog) + 1
                                          ELSE last_seen[x]]
         /\ n_callbacks_ok' = n_callbacks_ok + d.delivered
  /\ next_event_id' = next_event_id + 1
  /\ UNCHANGED <<max_history_size, subscriptions, lock, threadVars, clock, n_replay,
                 invoked>>

NoPublish == UNCHANGED <<busVars, threadVars, ghostVars>>

Top(t) == frames[t][Len(frames[t])]
InMethod(t, fn) == frames[t] # <<>> /\ Top(t).fn = fn

\* the method on top of t's stack moves on to `at`, with loop index i
Goto(t, at, i) ==
  /\ frames' = [frames EXCEPT ![t][Len(frames[t])] = [@ EXCEPT !.at = at, !.i = i]]
  /\ last_ret' = NoRet

\* the method on top of t's stack calls method fn of obj and will resume its
\* loop at index i
Call(t, fn, obj, i) ==
  /\ frames' = [frames EXCEPT ![t] =
       Append([@ EXCEPT ![Len(@)] = [@ EXCEPT !.i = i]],
              [fn |-> fn, obj |-> obj, at |-> "check", i |-> 0, call |-> Top(t).call])]
  /\ last_ret' = NoRet

\* the method on top of t's stack returns to its caller
Return(t) ==
  /\ frames' = [frames EXCEPT ![t] = SubSeq(@, 1, Len(@) - 1)]
  /\ last_ret' = IF Len(frames[t]) = 1
                 THEN [op |-> Top(t).fn, obj |-> Top(t).obj, result |-> "None"]
                 ELSE NoRet

\* an exception leaves the method on top of t's stack: no servant or service
\* method catches it, so it reaches the user's call
Raise(t) ==
  /\ frames' = [frames EXCEPT ![t] = <<>>]
  /\ last_ret' = [op |-> frames[t][1].fn, obj |-> frames[t][1].obj, result |-> "raised"]

\* a user calls a lifecycle method
LifecycleCall(t, op) ==
  /\ pc[t] = "idle"
  /\ frames[t] = <<>>
  /\ Len(call_log) < MaxLifecycleCalls
  /\ op.fn \in {"start_all_servants", "stop_all_servants"} \/ op.obj \in Servants
  /\ frames' = [frames EXCEPT ![t] = <<[fn |-> op.fn, obj |-> op.obj, at |-> "check",
                                          i |-> 0, call |-> Len(call_log) + 1]>>]
  /\ call_log' = Append(call_log, op)
  /\ last_ret' = NoRet
  /\ NoPublish
  /\ UNCHANGED <<registry, svc_running, asset_running, tag_running, n_created,
                 n_transitions, tagVars, queueVars, lifeVars, storeVars, genVars>>

\* NDHService.start_all_servants
StartAllServants(t) ==
  /\ InMethod(t, "start_all_servants")
  /\ LET f == Top(t) IN
     CASE f.at = "check" -> /\ IF svc_running THEN Return(t) ELSE Goto(t, "loop", 1)
                            /\ UNCHANGED svc_running
       [] f.at = "loop"  -> /\ IF f.i <= Len(registry)
                               THEN Call(t, "asset_start", registry[f.i], f.i + 1)
                               ELSE Goto(t, "set", 0)
                            /\ UNCHANGED svc_running
       [] f.at = "set"   -> /\ svc_running' = TRUE
                            /\ Return(t)
  /\ NoPublish
  /\ UNCHANGED <<registry, asset_running, tag_running, call_log, n_created,
                 n_transitions, tagVars, queueVars, lifeVars, storeVars, genVars>>

\* NDHService.stop_all_servants
StopAllServants(t) ==
  /\ InMethod(t, "stop_all_servants")
  /\ LET f == Top(t) IN
     CASE f.at = "check" -> /\ IF ~svc_running THEN Return(t) ELSE Goto(t, "loop", 1)
                            /\ UNCHANGED svc_running
       [] f.at = "loop"  -> /\ IF f.i <= Len(registry)
                               THEN Call(t, "asset_stop", registry[f.i], f.i + 1)
                               ELSE Goto(t, "set", 0)
                            /\ UNCHANGED svc_running
       [] f.at = "set"   -> /\ svc_running' = FALSE
                            /\ Return(t)
  /\ NoPublish
  /\ UNCHANGED <<registry, asset_running, tag_running, call_log, n_created,
                 n_transitions, tagVars, queueVars, lifeVars, storeVars, genVars>>

\* (variant: start() that starts the Tag Servants before it publishes)
AssetStartOrder_TagsFirst ==
  [check |-> "set", set |-> "loop", loop |-> "publish", publish |-> "return"]

\* the statements of AssetServant.start after its running check, in order:
\* the flag is set, InstanceCreated published, then the Tag Servants started
AssetStartOrder ==
  [check |-> "set", set |-> "publish", publish |-> "loop", loop |-> "return"]

\* the statements of AssetServant.stop after its running check, in order:
\* the Tag Servants are stopped, InstanceDeleted published, the flag cleared
AssetStopOrder ==
  [check |-> "loop", loop |-> "publish", publish |-> "set", set |-> "return"]

\* the method on top of t's stack has finished statement `at` of `order`
Advance(t, order, at) ==
  IF order[at] = "return" THEN Return(t)
  ELSE Goto(t, order[at], IF order[at] = "loop" THEN 1 ELSE 0)

\* a servant's lifecycle event joins the log, under the user call it serves
Logged(t, ty, src) ==
  life_log' = Append(life_log, [event_type |-> ty, source |-> src, call |-> Top(t).call])

\* AssetServant.start
AssetStart(t) ==
  /\ InMethod(t, "asset_start")
  /\ LET f == Top(t)
         a == f.obj
     IN
     CASE f.at = "check" ->
            /\ IF asset_running[a] THEN Return(t) ELSE Advance(t, AssetStartOrder, "check")
            /\ NoPublish
            /\ UNCHANGED <<asset_running, n_created, n_transitions, life_log>>
       [] f.at = "set" ->
            /\ asset_running' = [asset_running EXCEPT ![a] = TRUE]
            /\ n_transitions' = IF asset_running[a] THEN n_transitions
                                ELSE [n_transitions EXCEPT ![a] = @ + 1]
            /\ Advance(t, AssetStartOrder, "set")
            /\ NoPublish
            /\ UNCHANGED <<n_created, life_log>>
       [] f.at = "publish" ->
            /\ PublishWhole(t, "InstanceCreated")
            /\ n_created' = [n_created EXCEPT ![a] = @ + 1]
            /\ Logged(t, "InstanceCreated", a)
            /\ IF Delivery("InstanceCreated").result = "True"
               THEN Advance(t, AssetStartOrder, "publish") ELSE Raise(t)
            /\ UNCHANGED <<asset_running, n_transitions>>
       [] f.at = "loop" ->
            /\ IF f.i <= Len(TagsOf(a))
               THEN Call(t, "tag_start", TagsOf(a)[f.i], f.i + 1)
               ELSE Advance(t, AssetStartOrder, "loop")
            /\ NoPublish
            /\ UNCHANGED <<asset_running, n_created, n_transitions, life_log>>
  /\ UNCHANGED <<registry, svc_running, tag_running, call_log, n_stops, tagVars,
                 queueVars, storeVars, genVars>>

\* AssetServant.stop
AssetStop(t) ==
  /\ InMethod(t, "asset_stop")
  /\ LET f == Top(t)
         a == f.obj
     IN
     CASE f.at = "check" ->
            /\ IF ~asset_running[a] THEN Return(t) ELSE Advance(t, AssetStopOrder, "check")
            /\ NoPublish
            /\ UNCHANGED <<asset_running, lifeVars>>
       [] f.at = "loop" ->
            /\ IF f.i <= Len(TagsOf(a))
               THEN Call(t, "tag_stop", TagsOf(a)[f.i], f.i + 1)
               ELSE Advance(t, AssetStopOrder, "loop")
            /\ NoPublish
            /\ UNCHANGED <<asset_running, lifeVars>>
       [] f.at = "publish" ->
            /\ PublishWhole(t, "InstanceDeleted")
            /\ Logged(t, "InstanceDeleted", a)
            /\ IF Delivery("InstanceDeleted").result = "True"
               THEN Advance(t, AssetStopOrder, "publish") ELSE Raise(t)
            /\ UNCHANGED <<asset_running, n_stops>>
       [] f.at = "set" ->
            /\ asset_running' = [asset_running EXCEPT ![a] = FALSE]
            /\ n_stops' = IF asset_running[a] THEN [n_stops EXCEPT ![a] = @ + 1]
                          ELSE n_stops
            /\ Advance(t, AssetStopOrder, "set")
            /\ NoPublish
            /\ UNCHANGED life_log
  /\ UNCHANGED <<registry, svc_running, tag_running, call_log, n_created,
                 n_transitions, tagVars, queueVars, storeVars, genVars>>

\* TagServant.start of a generated Tag Servant (default TagServantConfig)
OwnedTagStart(t) ==
  /\ InMethod(t, "tag_start")
  /\ LET f == Top(t)
         g == f.obj
     IN
     CASE f.at = "check" ->
            /\ IF tag_running[g] THEN Return(t) ELSE Goto(t, "set", 0)
            /\ NoPublish
            /\ UNCHANGED <<tag_running, n_created, n_transitions, life_log>>
       [] f.at = "set" ->
            /\ tag_running' = [tag_running EXCEPT ![g] = TRUE]
            /\ n_transitions' = IF tag_running[g] THEN n_transitions
                                ELSE [n_transitions EXCEPT ![g] = @ + 1]
            /\ Goto(t, "publish", 0)
            /\ NoPublish
            /\ UNCHANGED <<n_created, life_log>>
       [] f.at = "publish" ->
            /\ PublishWhole(t, "TagCreated")
            /\ n_created' = [n_created EXCEPT ![g] = @ + 1]
            /\ Logged(t, "TagCreated", g)
            /\ IF Delivery("TagCreated").result = "True" THEN Return(t) ELSE Raise(t)
            /\ UNCHANGED <<tag_running, n_transitions>>
  /\ UNCHANGED <<registry, svc_running, asset_running, call_log, n_stops, tagVars,
                 queueVars, storeVars, genVars>>

\* TagServant.stop of a generated Tag Servant
OwnedTagStop(t) ==
  /\ InMethod(t, "tag_stop")
  /\ LET f == Top(t)
         g == f.obj
     IN
     CASE f.at = "check" ->
            /\ IF ~tag_running[g] THEN Return(t) ELSE Goto(t, "publish", 0)
            /\ NoPublish
            /\ UNCHANGED <<tag_running, lifeVars>>
       [] f.at = "publish" ->
            /\ PublishWhole(t, "TagDeleted")
            /\ Logged(t, "TagDeleted", g)
            /\ IF Delivery("TagDeleted").result = "True"
               THEN Goto(t, "set", 0) ELSE Raise(t)
            /\ UNCHANGED <<tag_running, n_stops>>
       [] f.at = "set" ->
            /\ tag_running' = [tag_running EXCEPT ![g] = FALSE]
            /\ n_stops' = IF tag_running[g] THEN [n_stops EXCEPT ![g] = @ + 1]
                          ELSE n_stops
            /\ Return(t)
            /\ NoPublish
            /\ UNCHANGED life_log
  /\ UNCHANGED <<registry, svc_running, asset_running, call_log, n_created,
                 n_transitions, tagVars, queueVars, storeVars, genVars>>

\* asset ids a placed instance may refer to: the library's and one more
RefAssets == {"pump", "valve", "unknown"}

\* the layouts a file may hold: placed instances with distinct ids
Layouts ==
  UNION {{l \in [1..n -> [instance_id : GenIds, ref_asset : RefAssets]] :
            \A i, j \in 1..n : i # j => l[i].instance_id # l[j].instance_id} :
         n \in 0..MaxInstances}

\* self.asset_servants[instance_id] = servant: a new key goes last, a key
\* already there keeps its place
DictSet(keys, k) ==
  IF \E i \in DOMAIN keys : keys[i] = k THEN keys ELSE Append(keys, k)

RECURSIVE CreateAssetServants(_, _, _)
\* the loop of generate_servants over the instances from index i on, with
\* _create_asset_servant for each: an instance whose definition is not
\* found is skipped; rt is the registry with each servant's tag servants
CreateAssetServants(rt, instances, i) ==
  IF i > Len(instances) THEN rt
  ELSE LET inst == instances[i] IN
       IF ~Resolves(inst.ref_asset) THEN CreateAssetServants(rt, instances, i + 1)
       ELSE CreateAssetServants(
              [keys |-> DictSet(rt.keys, inst.instance_id),
               tags |-> [rt.tags EXCEPT ![inst.instance_id] = AssetLibrary[inst.ref_asset]]],
              instances, i + 1)

\* load_fdl_from_file of a file that holds layout
LoadFdl(t, layout) ==
  /\ pc[t] = "idle"
  /\ frames[t] = <<>>
  /\ fdl' = [loaded |-> TRUE, instances |-> layout]
  /\ last_ret' = Ret("load_fdl_from_file", "None")
  /\ UNCHANGED <<busVars, threadVars, ghostVars, tagVars, queueVars, svcVars, lifeVars,
                 storeVars, transform, tag_servants, event_ids>>

\* the instances for which generate_servants builds a servant
Created(instances) ==
  {instances[k].instance_id : k \in {j \in DOMAIN instances : Resolves(instances[j].ref_asset)}}

\* generate_servants: ValueError without a layout; else the servants of the
\* resolved instances are built and put into the registry. Each is a new
\* object, stopped like its Tag Servants, and takes the place of the servant
\* registered under the same instance id, whatever that one's state
GenerateServants(t) ==
  /\ pc[t] = "idle"
  /\ frames[t] = <<>>
  /\ IF ~fdl.loaded
     THEN /\ last_ret' = [op |-> "generate_servants", result |-> "ValueError",
                          loaded |-> FALSE, before |-> registry]
          /\ UNCHANGED <<registry, tag_servants, asset_running, tag_running>>
     ELSE LET rt == CreateAssetServants([keys |-> registry, tags |-> tag_servants],
                                        fdl.instances, 1)
          IN  /\ registry' = rt.keys
              /\ tag_servants' = rt.tags
              /\ asset_running' = [a \in DOMAIN asset_running |->
                     IF a \in Created(fdl.instances) THEN FALSE ELSE asset_running[a]]
              /\ tag_running' = [g \in DOMAIN tag_running |->
                     IF \E a \in Created(fdl.instances) \cap Assets :
                          \E k \in DOMAIN TagsOf(a) : TagsOf(a)[k] = g
                     THEN FALSE ELSE tag_running[g]]
              /\ last_ret' = [op |-> "generate_servants", result |-> "None",
                              loaded |-> TRUE, before |-> registry]
  /\ UNCHANGED <<busVars, threadVars, ghostVars, tagVars, queueVars, svc_running,
                 frames, call_log, n_created,
                 n_transitions, lifeVars, storeVars, transform, fdl, event_ids>>

\* AssetServant.update_transform of the servant of instance a: the fields
\* whose argument is true are assigned, then InstanceUpdated is published
\* with the transform as it now is (the servants the service generates
\* have auto_publish_events on)
UpdateTransform(t, a, translation, rotation, scale) ==
  /\ pc[t] = "idle"
  /\ frames[t] = <<>>
  /\ \E k \in DOMAIN registry : registry[k] = a
  /\ Len(payloads) < MaxTransforms
  /\ transform' = [transform EXCEPT ![a] =
       [translation |-> IF Truthy(translation) THEN translation.v ELSE @.translation,
        rotation |-> IF Truthy(rotation) THEN rotation.v ELSE @.rotation,
        scale |-> IF Truthy(scale) THEN scale.v ELSE @.scale]]
  /\ PublishWhole(t, "InstanceUpdated")
  /\ payloads' = Append(payloads,
        [event_id |-> next_event_id, event_type |-> "InstanceUpdated",
         source |-> a, transform |-> transform'[a]])
  /\ last_ret' = [op |-> "update_transform", obj |-> a, translation |-> translation,
                  rotation |-> rotation, scale |-> scale,
                  before |-> [transform |-> transform[a],
                              is_running |-> asset_running[a],
                              tag_running |-> tag_running],
                  result |-> IF Delivery("InstanceUpdated").result = "True"
                             THEN "None" ELSE "raised"]
  /\ UNCHANGED <<tagVars, queueVars, svcVars, lifeVars, tsdb, tag_values, tpc, targ,
                 n_writes, fdl, tag_servants, event_ids>>

(* ------------------- events routed into a named queue ------------------ *)
\* the name of the one queue that is put to and got from
Q == <<"q">>

\* the Python type of the value a caller puts in the payload of its event
PayloadKinds == {"int", "tuple", "set"}

\* event.to_dict() as a queue message: the payload value of the event (the
\* payloads the servants build hold numbers and strings only), tagged with
\* the event's number so that the message names its event
EventKind(e) == IF "payload" \in DOMAIN e THEN e.payload ELSE "int"
ToDict(e) == [k |-> <<EventKind(e), e.event_id>>]

\* the subscription of test_ndh_with_queue: event_bus.subscribe("*", on_event)
QueueSubscription ==
  [id |-> 1, event_type |-> "*", callback |-> "enqueue", filter_func |-> "none"]

\* a caller builds an Event with a payload of its own and calls publish
PublishPayloadCall(t, ty, payload) ==
  /\ pc[t] = "idle"
  /\ qpc[t] = "idle"
  /\ next_event_id <= MaxPublish
  /\ ev' = [ev EXCEPT ![t] = [event_id |-> next_event_id, event_type |-> ty,
                              timestamp |-> clock, payload |-> payload]]
  /\ next_event_id' = next_event_id + 1
  /\ pc' = [pc EXCEPT ![t] = "publish"]
  /\ caller' = [caller EXCEPT ![t] = "none"]
  /\ last_ret' = NoRet
  /\ UNCHANGED <<busVars, idx, events_to_replay, replay_pos, replay_type, clock,
                 n_replay, pubLog, invoked, last_seen, n_callbacks_ok, tagVars,
                 queueVars, svcVars, lifeVars, storeVars, genVars>>

\* publish calls on_event, which calls event_queue.put(event.to_dict()): put
\* takes the queue lock and tests the capacity; the ValueError of a full
\* queue leaves put and on_event and is swallowed by publish
EnqueueCall(t) ==
  /\ pc[t] = "deliver"
  /\ idx[t] <= Len(subscriptions)
  /\ qpc[t] = "idle"
  /\ LET sub == subscriptions[idx[t]] IN
     /\ DispatchOutcome(sub, ev[t]) = "call"
     /\ sub.callback = "enqueue"
     /\ QCanAcquire(t, Q)
     /\ n_put' = n_put + 1
     /\ IF queues[Q].max_size > 0 /\ Size(TableOf(Q)) >= queues[Q].max_size
        THEN /\ CallbackReturned(t, sub, FALSE, TRUE)
             /\ UNCHANGED <<queues, qpc, qarg>>
        ELSE /\ queues' = [queues EXCEPT ![Q].lock = t]
             /\ qpc' = [qpc EXCEPT ![t] = "put"]
             /\ qarg' = [qarg EXCEPT ![t] = [@ EXCEPT !.name = Q, !.message = ToDict(ev[t])]]
             /\ last_ret' = NoRet
             /\ UNCHANGED <<lock, stats, pc, ev, idx, caller, invoked, last_seen,
                            n_callbacks_ok>>
  /\ UNCHANGED <<max_history_size, event_history, subscriptions, events_to_replay,
                 replay_pos, replay_type, clock, next_event_id, n_replay, pubLog,
                 tagVars, db_path, file_db, put_ok, get_log, known, svcVars, lifeVars,
                 storeVars, genVars>>

\* the rest of that put: json.dumps, both INSERTs and the commit, or the
\* TypeError of json.dumps, which publish swallows as well; the queue lock is
\* released and on_event is over
EnqueueInsert(t) ==
  /\ pc[t] = "deliver"
  /\ qpc[t] = "put"
  /\ LET sub == subscriptions[idx[t]]
         enc == JsonDumps(qarg[t].message)
     IN  /\ IF enc.ok THEN StoreTable(Q, Insert(TableOf(Q), enc.text), NoThread)
                      ELSE StoreTable(Q, TableOf(Q), NoThread)
         /\ put_ok' = IF enc.ok
                      THEN Append(put_ok, [name |-> Q, message |-> qarg[t].message])
                      ELSE put_ok
         /\ CallbackReturned(t, sub, enc.ok, TRUE)
  /\ qpc' = [qpc EXCEPT ![t] = "idle"]
  /\ qarg' = [qarg EXCEPT ![t] = [@ EXCEPT !.message = NoMessage]]
  /\ UNCHANGED <<max_history_size, event_history, subscriptions, events_to_replay,
                 replay_pos, replay_type, clock, next_event_id, n_replay, pubLog,
                 tagVars, db_path, n_put, get_log, known, svcVars, lifeVars,
                 storeVars, genVars>>

(* --------------------------- specifications ---------------------------- *)
\* the subscriptions callers register: a callback with or without a predicate
SubProfiles ==
  {p \in [pattern : Patterns, callback : CallbackKinds, filter_func : FilterKinds] :
     p.filter_func # "none" => p.callback = "ok"}

\* subscriptions without a predicate
PlainProfiles == {p \in SubProfiles : p.filter_func = "none"}

\* publish, subscribe and unsubscribe calls by the threads of T, registering
\* subscriptions of P
PubSubNext(T, P) ==
  \/ \E t \in T, ty \in EventTypes : PublishCall(t, ty)
  \/ \E t \in T : PublishAcquire(t)
  \/ \E t \in T : PublishDeliver(t)
  \/ \E t \in T : PublishReturn(t)
  \/ \E t \in T, p \in P : Subscribe(t, p.pattern, p.callback, p.filter_func)
  \/ \E t \in T, id \in SubIds : Unsubscribe(t, id)

\* replay_events calls by the threads of T
ReplayNext(T) ==
  \/ \E t \in T, ty \in EventTypes \cup {NoType} : ReplayCall(t, ty)
  \/ \E t \in T : ReplayAcquire(t)
  \/ \E t \in T : ReplayDeliver(t)
  \/ \E t \in T : ReplayRelease(t)
  \/ \E t \in T : ReplayReturn(t)

\* SpecSeq: one caller, so every call runs to completion before the next
\* begins; subscriptions of every profile
NextSeq ==
  \/ PubSubNext({"t1"}, SubProfiles)
  \/ ReplayNext({"t1"})
  \/ GetStatsCall("t1")
SpecSeq == Init /\ [][NextSeq]_vars

\* SpecReentrant: a subscriber whose callback calls back into the bus, directly
\* or through the Tag Servant wired to it, while two threads use bus and servant
ReentrantProfiles ==
  [pattern : {"*"}, callback : {"ok", "update_value"} \cup ReentrantKinds,
   filter_func : {"none"}]
TagConfigs ==
  [auto_publish_events : BOOLEAN, auto_write_tsdb : {FALSE},
   value_change_threshold : {NoValue, 2}]
InitReentrant ==
  InitBus({MaxCap}) /\ InitTag(TagConfigs) /\ NoQueues /\ NoServants /\ NoStore
NextReentrant ==
  \/ \E t \in Threads : PublishCall(t, "X")
  \/ \E t \in Threads : PublishAcquire(t)
  \/ \E t \in Threads : PublishDeliver(t)
  \/ \E t \in Threads : PublishReturn(t)
  \/ \E t \in Threads, p \in ReentrantProfiles :
        subscriptions = <<>> /\ Subscribe(t, p.pattern, p.callback, p.filter_func)
  \/ \E t \in Threads : ReplayCall(t, NoType)
  \/ \E t \in Threads : ReplayAcquire(t)
  \/ \E t \in Threads : ReplayDeliver(t)
  \/ \E t \in Threads : ReplayRelease(t)
  \/ \E t \in Threads : ReplayReturn(t)
  \/ \E t \in Threads : TagStart(t)
  \/ \E t \in Threads : TagStop(t)
  \/ \E t \in Threads : TagStopEnd(t)
  \/ \E t \in Threads, v \in Values : TagUpdateValue(t, v)
SpecReentrant == InitReentrant /\ [][NextReentrant]_vars

\* SpecQuery: one caller publishing at different times and querying the
\* history with every combination of filters
NextQuery ==
  \/ \E ty \in EventTypes : PublishCall("t1", ty)
  \/ PublishAcquire("t1")
  \/ PublishDeliver("t1")
  \/ PublishReturn("t1")
  \/ Subscribe("t1", "*", "ok", "none")
  \/ \E ty \in EventTypes \cup {NoType}, st \in 0..MaxTime, en \in 0..MaxTime,
        limit \in 0..MaxLimit : GetEventHistoryCall("t1", ty, st, en, limit)
  \/ Tick
SpecQuery == Init /\ [][NextQuery]_vars

\* Spec: concurrent callers of publish, subscribe and unsubscribe
Next == PubSubNext(Threads, PlainProfiles)
Spec == Init /\ [][Next]_vars

\* SpecQueue: one SQLiteQueue used by two threads that put and get
\* concurrently, with every kind of timeout
InitQueueSpec ==
  InitBus({0}) /\ InitTag({DefaultTagConfig}) /\ NoServants /\ NoStore
  /\ InitOneQueue(DbPaths, 0..MaxQueueSize)
NextQueue ==
  \/ \E t \in Threads, m \in Messages : QPutAcquire(t, Q, m)
  \/ \E t \in Threads : QPutInsert(t)
  \/ \E t \in Threads, timeout \in Timeouts : QGetCall(t, Q, timeout)
  \/ \E t \in Threads : QGetPoll(t)
  \/ \E t \in Threads : QGetWake(t)
  \/ \E t \in Threads : QSizeCall(t, Q)
  \/ \E t \in Threads : QGetHistoryCall(t, Q)
SpecQueue == InitQueueSpec /\ [][NextQueue]_vars

\* SpecQueueFair: producers and blocking or polling consumers, with every
\* started call scheduled: a sleeping getter wakes up, a polling getter gets
\* its turn at the lock, and a put holding the lock completes
NextBlocking ==
  \/ \E t \in Threads, m \in PlainMessages : QPutAcquire(t, Q, m)
  \/ \E t \in Threads : QPutInsert(t)
  \/ \E t \in Threads, timeout \in {"None", "zero"} : QGetCall(t, Q, timeout)
  \/ \E t \in Threads : QGetPoll(t)
  \/ \E t \in Threads : QGetWake(t)
SpecQueueFair ==
  /\ InitQueueSpec /\ [][NextBlocking]_vars
  /\ \A t \in Threads : WF_vars(QGetPoll(t)) /\ WF_vars(QGetWake(t))
                        /\ WF_vars(QPutInsert(t))

\* SpecManager: one caller working with the queues of a SQLiteQueueManager
InitManager ==
  InitBus({0}) /\ InitTag({DefaultTagConfig}) /\ NoServants /\ NoStore
  /\ InitQueue(DbPaths)
NextManager ==
  \/ \E n \in Names : GetQueue("t1", n)
  \/ \E n \in Names : DeleteQueue("t1", n)
  \/ ListQueuesCall("t1")
  \/ \E n \in Names, m \in PlainMessages : QPutAcquire("t1", n, m)
  \/ QPutInsert("t1")
  \/ \E n \in Names : QGetCall("t1", n, "zero")
  \/ QGetPoll("t1")
  \/ \E n \in Names : QSizeCall("t1", n)
  \/ \E n \in Names : QGetHistoryCall("t1", n)
SpecManager == InitManager /\ [][NextManager]_vars

\* SpecServants: one caller making lifecycle calls on the service, on the
\* generated Asset Servants and on their Tag Servants, with subscribers on
\* the bus
LifecycleProfiles ==
  {p \in SubProfiles : p.pattern = "*" /\ p.callback = "ok"
                       /\ p.filter_func \in {"none", "raise"}}
InitServants ==
  InitBus({MaxCap}) /\ InitTag({DefaultTagConfig}) /\ NoQueues /\ NoStore
  /\ InitService(<<"A1", "A2">>)
NextServants ==
  \/ \E op \in LifecycleOps : LifecycleCall("t1", op)
  \/ StartAllServants("t1")
  \/ StopAllServants("t1")
  \/ AssetStart("t1")
  \/ AssetStop("t1")
  \/ OwnedTagStart("t1")
  \/ OwnedTagStop("t1")
  \/ \E p \in LifecycleProfiles :
        frames["t1"] = <<>> /\ Subscribe("t1", p.pattern, p.callback, p.filter_func)
SpecServants == InitServants /\ [][NextServants]_vars

\* one generated Asset Servant that is started, stopped and moved
TransformOps == [fn : {"asset_start", "asset_stop"}, obj : {"A1"}]
InitTransform ==
  InitBus({MaxCap}) /\ InitTag({DefaultTagConfig}) /\ NoQueues /\ NoStore
  /\ InitService(<<"A1">>)
NextTransform ==
  \/ \E op \in TransformOps : LifecycleCall("t1", op)
  \/ AssetStart("t1")
  \/ AssetStop("t1")
  \/ OwnedTagStart("t1")
  \/ OwnedTagStop("t1")
  \/ \E p \in LifecycleProfiles :
        frames["t1"] = <<>> /\ Subscribe("t1", p.pattern, p.callback, p.filter_func)
  \/ \E tr \in {PyNone} \cup {PyVec(v) : v \in Translations},
        ro, sc \in {PyNone} \cup {PyVec(v) : v \in Scalings} :
        UpdateTransform("t1", "A1", tr, ro, sc)
SpecTransform == InitTransform /\ [][NextTransform]_vars

\* the lifecycle calls of several threads on one generated Asset Servant
\* and its Tag Servant; no subscriber
ConcurrentOps == {op \in LifecycleOps : op.obj \in {"service", "A1", "A1_g"}}
InitConcurrent ==
  InitBus({MaxCap}) /\ InitTag({DefaultTagConfig}) /\ NoQueues /\ NoStore
  /\ InitService(<<"A1">>)
NextConcurrent ==
  \/ \E t \in Threads, op \in ConcurrentOps : LifecycleCall(t, op)
  \/ \E t \in Threads : StartAllServants(t)
  \/ \E t \in Threads : StopAllServants(t)
  \/ \E t \in Threads : AssetStart(t)
  \/ \E t \in Threads : AssetStop(t)
  \/ \E t \in Threads : OwnedTagStart(t)
  \/ \E t \in Threads : OwnedTagStop(t)
SpecConcurrent == InitConcurrent /\ [][NextConcurrent]_vars

\* one store on which a thread writes batches while another writes single
\* values
InitTsdb ==
  InitBus({MaxCap}) /\ InitTag({DefaultTagConfig}) /\ NoQueues /\ NoServants
  /\ InitStore({"store"})
NextTsdb ==
  \/ \E b \in Batches : WriteTagValuesCall("t1", b)
  \/ WriteTagValuesStep("t1")
  \/ \E tv \in TagValues : WriteTagValueCall("t2", tv)
  \/ WriteTagValueCommit("t2")
SpecTsdb == InitTsdb /\ [][NextTsdb]_vars

\* one store on which a writer stores values of two tags with repeating
\* timestamps and a reader asks for the latest value
InitLatest ==
  InitBus({MaxCap}) /\ InitTag({DefaultTagConfig}) /\ NoQueues /\ NoServants
  /\ InitStore({"store"})
NextLatest ==
  \/ \E tv \in StampedValues : WriteTagValueCall("t1", tv)
  \/ WriteTagValueCommit("t1")
  \/ \E tag_id \in {"temp_001", ServantTagId} : QueryLatestValue("t2", tag_id)
SpecLatest == InitLatest /\ [][NextLatest]_vars

\* servants that create events while time passes
InitIds ==
  InitBus({MaxCap}) /\ InitTag({DefaultTagConfig}) /\ NoQueues /\ NoServants /\ NoStore
NextIds ==
  \/ \E random_bits \in RandomBits : GenerateEventId(random_bits)
  \/ Tick
SpecIds == InitIds /\ [][NextIds]_vars

\* a bus whose one subscriber, registered first, puts every event into the
\* queue "q", which has room for all of them; two threads publish events
\* with payloads of their own and, between their publish calls, take
\* messages from the queue without waiting
InitRouted(sizes) ==
  /\ InitTag({DefaultTagConfig}) /\ NoServants /\ NoStore
  /\ InitOneQueue(DbPaths, sizes)
  /\ max_history_size = MaxCap
  /\ event_history = <<>>
  /\ subscriptions = <<QueueSubscription>>
  /\ lock = NoThread
  /\ stats = [total_published |-> 0, total_delivered |-> 0, total_subscriptions |-> 1]
  /\ pc = [t \in Threads |-> "idle"]
  /\ ev = [t \in Threads |-> NoEvent]
  /\ idx = [t \in Threads |-> 0]
  /\ events_to_replay = [t \in Threads |-> <<>>]
  /\ replay_pos = [t \in Threads |-> 0]
  /\ replay_type = [t \in Threads |-> NoType]
  /\ caller = [t \in Threads |-> "none"]
  /\ last_ret = NoRet
  /\ clock = 1
  /\ next_event_id = 1
  /\ n_replay = 0
  /\ pubLog = <<>>
  /\ invoked = [t \in Threads |-> <<>>]
  /\ last_seen = [s \in SubIds |-> 0]
  /\ n_callbacks_ok = 0
InitDrain == InitRouted({DefaultMaxSize})
NextDrain ==
  \/ \E t \in Threads, payload \in PayloadKinds : PublishPayloadCall(t, "X", payload)
  \/ \E t \in Threads : PublishAcquire(t)
  \/ \E t \in Threads : EnqueueCall(t)
  \/ \E t \in Threads : EnqueueInsert(t)
  \/ \E t \in Threads : PublishReturn(t)
  \/ \E t \in Threads : pc[t] = "idle" /\ QGetCall(t, Q, "zero")
  \/ \E t \in Threads : QGetPoll(t)
SpecDrain == InitDrain /\ [][NextDrain]_vars

\* the same bus and queue, the queue with room for one message or for all,
\* and one Tag Servant: thread t1 starts, stops and updates the servant,
\* which publishes; thread t2 publishes events of its own and, between
\* them, takes messages from the queue with or without waiting.  A thread
\* waiting for the bus lock gets it in the end when it is released again
\* and again; a thread that can go on inside publish does
InitRoutedFair == InitRouted({1, DefaultMaxSize})
NextRoutedFair ==
  \/ \E payload \in {"int", "set"} : PublishPayloadCall("t2", "X", payload)
  \/ TagStart("t1")
  \/ TagStop("t1")
  \/ TagStopEnd("t1")
  \/ TagUpdateValue("t1", 1)
  \/ \E t \in Threads : PublishAcquire(t)
  \/ \E t \in Threads : EnqueueCall(t)
  \/ \E t \in Threads : EnqueueInsert(t)
  \/ \E t \in Threads : PublishReturn(t)
  \/ \E timeout \in {"None", "zero"} : pc["t2"] = "idle" /\ QGetCall("t2", Q, timeout)
  \/ QGetPoll("t2")
  \/ QGetWake("t2")
SpecRoutedFair ==
  /\ InitRoutedFair /\ [][NextRoutedFair]_vars
  /\ \A t \in Threads : /\ SF_vars(PublishAcquire(t))
                        /\ WF_vars(EnqueueCall(t))
                        /\ WF_vars(EnqueueInsert(t))
                        /\ WF_vars(PublishReturn(t))

\* one Tag Servant that two threads start, stop and update concurrently, on
\* a bus with subscribers that return normally
InitUpdates ==
  InitBus({MaxCap}) /\ InitTag({DefaultTagConfig}) /\ NoQueues /\ NoServants /\ NoStore
NextUpdates ==
  \/ \E p \in {q \in PlainProfiles : q.callback = "ok"} :
       Subscribe("t1", p.pattern, p.callback, p.filter_func)
  \/ \E t \in Threads : TagStart(t)
  \/ \E t \in Threads : TagStop(t)
  \/ \E t \in Threads : TagStopEnd(t)
  \/ \E t \in Threads, v \in Values : TagUpdateValue(t, v)
  \/ \E t \in Threads : PublishAcquire(t)
  \/ \E t \in Threads : PublishDeliver(t)
  \/ \E t \in Threads : PublishReturn(t)
SpecUpdates == InitUpdates /\ [][NextUpdates]_vars

\* a service with two generated servants whose user starts and stops all
\* servants and generates the servants again
ServiceOps == {op \in LifecycleOps : op.obj = "service"}
InitRegenerate ==
  InitBus({MaxCap}) /\ InitTag({DefaultTagConfig}) /\ NoQueues /\ NoStore
  /\ InitService(<<"A1", "A2">>)
NextRegenerate ==
  \/ \E op \in ServiceOps : LifecycleCall("t1", op)
  \/ StartAllServants("t1")
  \/ StopAllServants("t1")
  \/ AssetStart("t1")
  \/ AssetStop("t1")
  \/ OwnedTagStart("t1")
  \/ OwnedTagStop("t1")
  \/ GenerateServants("t1")
SpecRegenerate == InitRegenerate /\ [][NextRegenerate]_vars

\* one thread replays the history while another publishes, subscribes and
\* unsubscribes; all subscriptions are wildcard ones that return normally
WildcardProfiles == {p \in PlainProfiles : p.pattern = "*" /\ p.callback = "ok"}
NextReplayMixed ==
  \/ PubSubNext({"t2"}, WildcardProfiles)
  \/ ReplayNext({"t1"})
SpecReplayMixed == Init /\ [][NextReplayMixed]_vars

\* a service whose user loads layouts and generates servants
InitGenerate ==
  InitBus({MaxCap}) /\ InitTag({DefaultTagConfig}) /\ NoQueues /\ NoStore /\ NoServants
NextGenerate ==
  \/ \E l \in Layouts : LoadFdl("t1", l)
  \/ GenerateServants("t1")
SpecGenerate == InitGenerate /\ [][NextGenerate]_vars

\* one Tag Servant, built with or without a store and with write-through on
\* as generate_servants sets it, driven by one thread; subscribers come and
\* their predicates may raise
StoreConfigs ==
  [auto_publish_events : BOOLEAN, auto_write_tsdb : {TRUE},
   value_change_threshold : {NoValue, 2}]
InitStoreSpec ==
  InitBus({MaxCap}) /\ InitTag(StoreConfigs) /\ NoQueues /\ NoServants
  /\ InitStore({"None", "store"})
NextStore ==
  \/ \E p \in LifecycleProfiles : Subscribe("t1", p.pattern, p.callback, p.filter_func)
  \/ TagStart("t1")
  \/ TagStop("t1")
  \/ TagStopEnd("t1")
  \/ \E v \in Values : TagUpdateValue("t1", v)
  \/ PublishAcquire("t1")
  \/ PublishDeliver("t1")
  \/ PublishReturn("t1")
  \/ TagWrite("t1")
  \/ TagCommit("t1")
  \/ Tick
SpecStore == InitStoreSpec /\ [][NextStore]_vars

(* ------------------------------- claims -------------------------------- *)
\* the events of h that pass an optional type filter, in the order of h
MatchingType(h, ty) ==
  LET keep(e) == ty = NoType \/ e.event_type = ty IN SelectSeq(h, keep)

\* C1: after N publishes on a bus with cap C the history is exactly the last
\* min(N, C) published events in publish order, it is never longer than C,
\* and get_event_history(limit=C) returns exactly those events.
C1_HistoryIsRecentWindow ==
  /\ event_history = LastN(pubLog, Min(Len(pubLog), max_history_size))
  /\ Len(event_history) <= max_history_size
  /\ (/\ last_ret.op = "get_event_history"
      /\ last_ret.event_type = NoType
      /\ last_ret.start_time = NoTime
      /\ last_ret.end_time = NoTime
      /\ last_ret.limit = max_history_size)
     => last_ret.result = LastN(pubLog, Min(Len(pubLog), max_history_size))

\* C1 witness: more events were published than the cap holds, and the
\* history was then read with limit = cap
C1_Witness ==
  /\ max_history_size = 2
  /\ Len(pubLog) = 3
  /\ last_ret.op = "get_event_history"
  /\ last_ret.event_type = NoType /\ last_ret.start_time = NoTime
  /\ last_ret.end_time = NoTime /\ last_ret.limit = 2
  /\ last_ret.result = <<pubLog[2], pubLog[3]>>

\* C9: for every history, optional type filter and limit >= 0,
\* get_event_history returns exactly the last min(limit, m) of the m matching
\* events in publish order, so never more than limit events.
C9_LastLimitMatching ==
  (/\ last_ret.op = "get_event_history"
   /\ last_ret.start_time = NoTime
   /\ last_ret.end_time = NoTime)
  => LET m == MatchingType(event_history, last_ret.event_type)
     IN  /\ last_ret.result = LastN(m, Min(last_ret.limit, Len(m)))
         /\ Len(last_ret.result) <= last_ret.limit

\* the claim's wording of "publish/replay hands e to sub": the pattern equals
\* the event type or is the wildcard, and the predicate, if any, returns true
Eligible(sub, e) ==
  /\ (sub.event_type = e.event_type \/ sub.event_type = "*")
  /\ sub.filter_func \in {"none", "pass"}

\* how many entries of the invocation list inv are for subscription id s and event id
TimesInvoked(inv, s, id) ==
  Cardinality({i \in 1..Len(inv) : inv[i].sub_id = s /\ inv[i].event_id = id})

Registered(s) == \E i \in 1..Len(subscriptions) : subscriptions[i].id = s
SubOf(s) == subscriptions[CHOOSE i \in 1..Len(subscriptions) : subscriptions[i].id = s]

\* every registered eligible subscription was invoked exactly once for e, and
\* nothing else was invoked
ExactlyEligibleInvoked(inv, e) ==
  \A s \in SubIds :
    TimesInvoked(inv, s, e.event_id) =
      IF Registered(s) /\ Eligible(SubOf(s), e) THEN 1 ELSE 0

\* C2: publish(event) invokes, exactly once each, the callbacks of precisely
\* the subscriptions registered at the time of the publish whose pattern
\* matches and whose predicate (if any) returns true; none other is invoked.
C2_ExactlyMatchingInvoked ==
  last_ret.op = "publish" => ExactlyEligibleInvoked(last_ret.invoked, last_ret.event)

\* C3: when a callback raises during publish, the exception does not reach
\* the publisher, the event stays in the history, and every other matching
\* subscription is still invoked for that event.
C3_RaisingCallbackIsolated ==
  (/\ last_ret.op = "publish"
   /\ \E i \in 1..Len(last_ret.invoked) : ~last_ret.invoked[i].ok)
  => /\ last_ret.result = "True"
     /\ (max_history_size > 0 =>
           event_history[Len(event_history)] = last_ret.event)
     /\ \A s \in SubIds :
          (Registered(s) /\ Eligible(SubOf(s), last_ret.event))
          => TimesInvoked(last_ret.invoked, s, last_ret.event.event_id) >= 1

\* C4: publish returns True once the event is appended, whatever predicates
\* and callbacks do; it never raises to the caller and never skips the
\* remaining subscriptions.
C4_PublishAlwaysReturnsTrue ==
  last_ret.op = "publish" =>
    /\ last_ret.result = "True"
    /\ Len(last_ret.invoked) =
         Cardinality({s \in SubIds : Registered(s) /\ Eligible(SubOf(s), last_ret.event)})

\* C8: replay_events(type) invokes each currently registered matching
\* subscription once per retained matching event, in publish order, and for
\* no evicted event (cap 2, publish E1 E2 E3, subscribe, replay: E2 then E3).
C8_ReplayInvokesEachRetained ==
  last_ret.op = "replay_events" =>
    LET retained == MatchingType(event_history, last_ret.event_type)
        idsFor(s) == LET mine(x) == x.sub_id = s
                         got == SelectSeq(last_ret.invoked, mine)
                     IN  [i \in 1..Len(got) |-> got[i].event_id]
        dueTo(s) == LET due(e) == Registered(s) /\ Eligible(SubOf(s), e)
                        evs == SelectSeq(retained, due)
                    IN  [i \in 1..Len(evs) |-> evs[i].event_id]
    IN  \A s \in SubIds : idsFor(s) = dueTo(s)

\* C10: get_stats reports total_published = number of publish calls,
\* total_delivered = number of callback invocations that returned without
\* raising, active_subscriptions = subscriptions currently registered, and
\* current_history_size = current history length.
C10_StatsCountEverything ==
  last_ret.op = "get_stats" =>
    /\ last_ret.result.total_published = Len(pubLog)
    /\ last_ret.result.total_delivered = n_callbacks_ok
    /\ last_ret.result.active_subscriptions = Len(subscriptions)
    /\ last_ret.result.current_history_size = Len(event_history)

\* C5: for any interleaving of concurrent publish calls every subscriber
\* receives its events in the order in which they were appended to the
\* history: each event publish hands to a callback was appended later than
\* the event that callback was handed before.
C5_DeliveryFollowsAppendOrder ==
  [][\A t \in Threads :
       (pc[t] = "deliver" /\ Len(invoked'[t]) > Len(invoked[t]))
       => LET s == invoked'[t][Len(invoked'[t])].sub_id
          IN  /\ PubIndex(ev[t]) > last_seen[s]
              /\ pubLog[PubIndex(ev[t])] = ev[t]]_vars

\* C5 witness: two threads published concurrently (the event created second
\* was appended first) and one subscriber has received both events
C5_Witness ==
  /\ Len(pubLog) >= 2
  /\ pubLog[1].event_id > pubLog[2].event_id
  /\ \E s \in SubIds : last_seen[s] = 2
  /\ last_ret.op = "publish"
  /\ Len(last_ret.invoked) >= 1

\* C7: replay_events leaves the event history, the ids of its events and the
\* total-published count unchanged, and hands out only events that were
\* published, under the event_id they were published with.
C7_ReplayLeavesHistory ==
  [][ReplayNext(Threads) =>
       /\ event_history' = event_history
       /\ pubLog' = pubLog
       /\ stats'.total_published = stats.total_published
       /\ \A t \in Threads :
            Len(invoked'[t]) > Len(invoked[t]) =>
              \E i \in 1..Len(event_history) :
                /\ event_history[i] = ev[t]
                /\ invoked'[t][Len(invoked'[t])].event_id = event_history[i].event_id]_vars

\* C7 witness: a replay has handed two retained events to a subscriber
C7_Witness ==
  /\ last_ret.op = "replay_events"
  /\ last_ret.result = "None"
  /\ Len(last_ret.invoked) >= 2
  /\ Len(event_history) = 2
  /\ stats.total_published = 3

\* thread t is about to call the callback of the subscription at idx[t]
InDispatch(t) ==
  /\ pc[t] \in {"deliver", "replay_deliver"}
  /\ idx[t] <= Len(subscriptions)
  /\ DispatchOutcome(subscriptions[idx[t]], ev[t]) = "call"

CurrentCallback(t) == subscriptions[idx[t]].callback

\* the step is one of thread t
Stepped(t) == pc'[t] # pc[t] \/ idx'[t] # idx[t]

\* the bus calls that begin with `with self.lock`
LockedOps == {"publish", "subscribe", "unsubscribe", "get_event_history", "get_stats"}

\* once a thread waits for the lock it holds, it waits forever, the lock is
\* never released, the bus never changes and no call that needs the lock
\* gets it or returns
BlockedForever(t) ==
  pc[t] = "blocked" =>
    /\ pc'[t] = "blocked"
    /\ lock = t /\ lock' = t
    /\ busVars' = busVars
    /\ last_ret'.op \notin LockedOps
    /\ \A u \in Threads : pc'[u] \in {"deliver", "replay_deliver"} => pc'[u] = pc[u]

\* C6 (as stated): a callback that calls publish, subscribe, unsubscribe,
\* get_event_history or get_stats on the bus that is invoking it (from publish
\* or replay_events) never returns, the outer call never completes and every
\* later bus operation blocks; the same for a callback that calls
\* TagServant.update_value on a servant wired to the same bus.
C6_AnyReentrantCallBlocks ==
  [][\A t \in Threads :
       /\ (InDispatch(t) /\ Stepped(t)
           /\ CurrentCallback(t) \in ReentrantKinds \cup {"update_value"})
          => pc'[t] = "blocked"
       /\ BlockedForever(t)]_vars

\* C6 (amended): as stated for the five bus calls; a callback that calls
\* TagServant.update_value blocks exactly when that call goes on to publish:
\* the servant is running, publishes events automatically and the value is
\* not dropped by the change threshold. Otherwise the callback returns.
C6_ReentrantCallBlocks ==
  [][\A t \in Threads :
       /\ (InDispatch(t) /\ Stepped(t) /\ CurrentCallback(t) \in ReentrantKinds)
          => pc'[t] = "blocked"
       /\ (InDispatch(t) /\ Stepped(t) /\ CurrentCallback(t) = "update_value")
          => /\ pc'[t] = "blocked" =>
                  /\ is_running
                  /\ tag_config.auto_publish_events
                  /\ current_value' \in Values
                  /\ UpdateAccepted(current_value')
             /\ (/\ is_running
                 /\ tag_config.auto_publish_events
                 /\ tag_config.value_change_threshold = NoValue)
                => pc'[t] = "blocked"
             /\ (is_running /\ tag_config.auto_publish_events /\ pc'[t] # "blocked")
                => /\ current_value' = current_value
                   /\ current_value # NoValue
                   /\ tag_config.value_change_threshold # NoValue
             /\ (~is_running \/ ~tag_config.auto_publish_events)
                => pc'[t] = pc[t] /\ idx'[t] = idx[t] + 1
       /\ BlockedForever(t)]_vars

\* C6 witness: a publish is stuck in a callback that called update_value on
\* the running servant, and the other thread waits for the lock with its own
\* publish
C6_Witness ==
  \E t \in Threads, u \in Threads :
    /\ pc[t] = "blocked"
    /\ caller[t] = "none"
    /\ subscriptions[idx[t]].callback = "update_value"
    /\ is_running
    /\ pc[u] = "publish"


(* ---------------------------- queue claims ----------------------------- *)
\* the messages whose put on queue `name` succeeded, in put order
PutsOn(name) ==
  LET mine(x) == x.name = name
      p == SelectSeq(put_ok, mine)
  IN  [i \in 1..Len(p) |-> p[i].message]

\* what the gets on queue `name` that returned a message returned, in order
GetsOn(name) ==
  LET mine(x) == x.name = name
      g == SelectSeq(get_log, mine)
  IN  [i \in 1..Len(g) |-> g[i].result]

\* C11: a queue is FIFO: put(a); put(b); get() == a; get() == b for any two
\* messages; the sequence of values returned by successive gets is a prefix
\* of the sequence of successfully put messages.
C11_GetsArePrefixOfPuts ==
  /\ Len(GetsOn(Q)) <= Len(PutsOn(Q))
  /\ GetsOn(Q) = SubSeq(PutsOn(Q), 1, Len(GetsOn(Q)))

\* C12: with a maximum M > 0 the number of pending messages never exceeds M
\* under any interleaving of puts and gets, and a put attempted while M
\* messages are pending raises the capacity error and leaves pending messages
\* and history unchanged.
C12_PendingNeverExceedsMax ==
  /\ [](queues[Q].max_size > 0 => Size(TableOf(Q)) <= queues[Q].max_size)
  /\ [][ (/\ n_put' = n_put + 1
          /\ queues[Q].max_size > 0
          /\ Size(TableOf(Q)) >= queues[Q].max_size)
         => (/\ last_ret'.op = "put"
             /\ last_ret'.result = "ValueError"
             /\ TableOf(Q)' = TableOf(Q)) ]_vars

\* a put has just been rejected by a full queue while the other thread is in
\* a call of its own
C12_Witness ==
  /\ last_ret.op = "put"
  /\ last_ret.result = "ValueError"
  /\ Size(TableOf(Q)) = queues[Q].max_size
  /\ \E t \in Threads : qpc[t] # "idle"

\* C13: under any interleaving of concurrent gets every enqueued message is
\* returned by at most one get, and size() always equals the number of
\* successful puts minus the number of gets that returned a message.
C13_EachMessageConsumedOnce ==
  /\ \A i, j \in 1..Len(get_log) : get_log[i].id = get_log[j].id => i = j
  /\ Size(TableOf(Q)) = Len(put_ok) - Len(get_log)
  /\ (last_ret.op = "size" => last_ret.result = Len(put_ok) - Len(get_log))

\* both threads were in get at once and each came back with a message
C13_Witness ==
  /\ last_ret.op = "get"
  /\ last_ret.result # NoMessage
  /\ Len(get_log) = 2
  /\ \E t \in Threads : t # last_ret.thread /\ qpc[t] \in {"poll", "sleep"}

InGetNone(t) == qpc[t] \in {"poll", "sleep"} /\ qarg[t].timeout = "None"

\* C15: get(timeout=0) never waits: it returns the oldest pending message if
\* there is one and None otherwise, without sleeping; get(timeout=None) never
\* returns None.
C15_ZeroTimeoutNeverWaits ==
  [][ \A t \in Threads :
        /\ (qarg[t].timeout = "zero" => qpc'[t] # "sleep")
        /\ (qpc[t] = "poll" /\ qpc'[t] = "idle" /\ qarg[t].timeout = "zero") =>
             /\ ~last_ret'.slept
             /\ IF Pending(TableOf(Q)) = {}
                THEN last_ret'.result = NoMessage
                ELSE /\ last_ret'.id = TableOf(Q).messages[Oldest(TableOf(Q))].id
                     /\ last_ret'.result =
                          JsonLoads(TableOf(Q).messages[Oldest(TableOf(Q))].message)
                     /\ \A i \in Pending(TableOf(Q)) :
                          last_ret'.id <= TableOf(Q).messages[i].id
        /\ (InGetNone(t) /\ qpc'[t] = "idle") =>
             last_ret'.result # NoMessage ]_vars

\* a get(timeout=0) found two pending messages and came back at once with
\* the older one
C15_Witness ==
  /\ last_ret.op = "get"
  /\ last_ret.timeout = "zero"
  /\ last_ret.result # NoMessage
  /\ ~last_ret.slept
  /\ Len(put_ok) = 2
  /\ Size(TableOf(Q)) = 1

\* C16: a get(timeout=None) blocked on an empty queue eventually returns a
\* message once a put on that queue succeeds, unless another consumer takes
\* the message; nothing other than an arriving message unblocks it.
C16_BlockedGetIsServed ==
  /\ \A t \in Threads :
       (InGetNone(t) /\ Pending(TableOf(Q)) # {})
         ~> (~InGetNone(t) \/ Pending(TableOf(Q)) = {})
  /\ [][ \A t \in Threads :
           (InGetNone(t) /\ ~InGetNone(t)') =>
              /\ Pending(TableOf(Q)) # {}
              /\ last_ret'.op = "get"
              /\ last_ret'.result # NoMessage ]_vars

\* a getter that slept on the empty queue was woken by a put and served
C16_Witness ==
  /\ last_ret.op = "get"
  /\ last_ret.timeout = "None"
  /\ last_ret.slept
  /\ last_ret.result # NoMessage
  /\ Len(put_ok) = 1

(* ------------------------- queue manager claims ------------------------ *)
\* the tables a queue obtained by get_queue(name) now would work on
TableAfterGetQueue(name) ==
  IF queues[name].exists THEN TableOf(name)
  ELSE IF db_path = "file" THEN CreateTables(file_db, name)[SafeName(name)]
  ELSE EmptyTable

\* C17: after delete_queue(name) on an existing queue its storage is gone:
\* a subsequent get_queue(name) yields a queue with size 0 and empty history
\* and name is no longer reported by list_queues(), for every queue name
\* accepted by get_queue.
C17_DeleteDropsStorage ==
  (last_ret.op = "delete_queue" /\ last_ret.existed) =>
    /\ last_ret.result = "None"
    /\ Size(TableAfterGetQueue(last_ret.name)) = 0
    /\ GetHistory(TableAfterGetQueue(last_ret.name)) = <<>>
    /\ last_ret.name \notin ListQueues

\* C18: delete_queue(name) for a name the manager does not know raises a
\* precondition error to the caller.
C18_DeleteUnknownRaises ==
  (last_ret.op = "delete_queue" /\ ~last_ret.existed) => last_ret.result # "None"

\* C19: list_queues() returns exactly the names for which get_queue has been
\* called on this manager and which have not since been deleted, under the
\* names the caller used.
C19_ListIsKnownNames ==
  last_ret.op = "list_queues" => last_ret.result = known

(* --------------------------- lifecycle claims -------------------------- *)
\* no lifecycle call is under way
Quiescent == \A t \in Threads : frames[t] = <<>>

\* the servants a start call is to start
StartedBy(op) ==
  IF op.fn = "start_all_servants"
  THEN {registry[i] : i \in DOMAIN registry}
       \cup UNION {{TagsOf(registry[i])[j] : j \in DOMAIN TagsOf(registry[i])} :
                     i \in DOMAIN registry}
  ELSE IF op.fn = "asset_start"
  THEN {op.obj} \cup {TagsOf(op.obj)[j] : j \in DOMAIN TagsOf(op.obj)}
  ELSE {op.obj}

StartOps == {op \in LifecycleOps : op.fn \in {"start_all_servants", "asset_start", "tag_start"}}

\* C20: start() twice on any Tag or Asset Servant, or start_all_servants()
\* twice on the service, produces exactly one *Created event per servant;
\* stop() or stop_all_servants() before any start produces no event; the
\* number of *Created events of a servant equals its number of
\* stopped-to-running transitions.
C20_OneCreatedPerStart ==
  Quiescent =>
    /\ \A s \in Servants : n_created[s] = n_transitions[s]
    /\ (\A i \in DOMAIN call_log : call_log[i] \notin StartOps) => pubLog = <<>>
    /\ \A op \in StartOps :
         (Len(call_log) >= 2 /\ \A i \in DOMAIN call_log : call_log[i] = op) =>
            \A s \in StartedBy(op) : n_created[s] = 1

(* ---------------------------- update_value claims ---------------------- *)
\* the TagValueChanged events of a log
ChangedIn(log) == SelectSeq(log, LAMBDA e : e.event_type = "TagValueChanged")

\* update_value is not under way in any thread
NoUpdateUnderWay == \A t \in Threads : pc[t] = "idle"

\* C21: update_value on a Tag Servant that is not running changes nothing:
\* the current value and the last-update time stay as they were, no
\* TagValueChanged event is built or published and nothing is written to
\* the store.
C21_StoppedServantIgnoresUpdate ==
  [][\A v \in Values :
       (~is_running /\ TagUpdateValue("t1", v)) =>
          /\ UNCHANGED <<current_value, last_update_time, tag_values, pubLog,
                         payloads, next_event_id, event_history>>
          /\ pc'["t1"] = "idle"
          /\ last_ret' = Ret("update_value", "None")]_vars

\* update_value has returned on a servant that was stopped after it had
\* accepted a value
C21_Witness ==
  /\ ~is_running
  /\ last_ret = Ret("update_value", "None")
  /\ current_value # NoValue
  /\ tsdb = "store"

EachChangePublishedOnce ==
  LET pub == ChangedIn(pubLog) IN
    /\ Len(pub) <= Len(payloads)
    /\ Len(payloads) - Len(pub) <= 1
    /\ \A k \in DOMAIN pub : pub[k].event_id = payloads[k].event_id
    /\ (\A t \in Threads : pc[t] # "publish") => Len(pub) = Len(payloads)

\* what update_value(v) does on a running servant without threshold, by the
\* statement of C23, for the configurations of `configs`
StoresAndPublishes(configs) ==
  \A v \in Values :
    (/\ TagUpdateValue("t1", v)
     /\ is_running
     /\ tag_config.value_change_threshold = NoValue
     /\ tag_config \in configs) =>
       /\ current_value' = v
       /\ last_update_time' = clock
       /\ pc'["t1"] = "publish"
       /\ ev'["t1"].event_type = "TagValueChanged"
       /\ payloads' = Append(payloads,
             ValueChangedPayload(ev'["t1"].event_id, current_value, v, clock))

\* C23 as stated: with no threshold, every update_value on a running Tag
\* Servant, including one that repeats the current value, stores the value
\* and publishes exactly one TagValueChanged whose old value is the value
\* held before the call and whose new value is the value supplied.
C23_EveryUpdatePublishes ==
  []EachChangePublishedOnce /\ [][StoresAndPublishes(StoreConfigs)]_vars

\* C23, amended: ... on a running Tag Servant whose auto_publish_events is
\* on (the default) ...; with auto_publish_events off the value is stored
\* and no event is published.
C23_EveryUpdatePublishesIfAuto ==
  /\ []EachChangePublishedOnce
  /\ [][StoresAndPublishes({c \in StoreConfigs : c.auto_publish_events})]_vars
  /\ [][\A v \in Values :
          (/\ TagUpdateValue("t1", v)
           /\ is_running
           /\ tag_config.value_change_threshold = NoValue
           /\ ~tag_config.auto_publish_events) =>
             /\ current_value' = v
             /\ UNCHANGED <<pubLog, payloads, next_event_id, ev>>]_vars

\* the value just held was supplied again and its event is in the history
C23_Witness ==
  /\ tag_config.value_change_threshold = NoValue
  /\ \E k \in DOMAIN payloads :
       /\ payloads[k].old_value = payloads[k].new_value
       /\ Len(ChangedIn(pubLog)) >= k
       /\ \E j \in DOMAIN event_history :
            event_history[j].event_id = payloads[k].event_id

\* C29: in a runtime configured with a Time-Series Store, every update_value
\* accepted by a generated Tag Servant appends exactly one value to the
\* store under that servant's identity, after its TagValueChanged event has
\* been published, and a rejected or suppressed update appends none: the
\* number of stored values of a tag equals the number of its
\* TagValueChanged events.
C29_StoredValuesMatchEvents ==
  (tsdb = "store" /\ tag_config.auto_publish_events /\ NoUpdateUnderWay) =>
     Len(RowsOf(tag_values, ServantTagId)) = Len(ChangedIn(pubLog))

(* --------------------------- event order claims ------------------------ *)
\* the Asset Servant that owns Tag Servant g
OwnerOf(g) == CHOOSE a \in Assets : \E j \in DOMAIN TagsOf(a) : TagsOf(a)[j] = g

\* the user call under which entry e of the lifecycle log was published
CallOf(e) == call_log[e.call]

\* entry k of the lifecycle log lies after an InstanceCreated of asset a and
\* before the next InstanceDeleted of a
InsideAsset(a, k) ==
  \E j \in 1..(k - 1) :
    /\ life_log[j].event_type = "InstanceCreated" /\ life_log[j].source = a
    /\ \A i \in (j + 1)..(k - 1) :
         ~(life_log[i].event_type = "InstanceDeleted" /\ life_log[i].source = a)

FieldAfter(arg, before) == IF arg = PyNone THEN before ELSE arg.v

\* C25: update_transform changes exactly the supplied transform fields,
\* leaves omitted fields, the running flag and the owned Tag Servants
\* unchanged, then publishes exactly one InstanceUpdated carrying the full
\* resulting transform, whether the Asset Servant is running or stopped.
C25_UpdateTransformSetsSuppliedFields ==
  last_ret.op = "update_transform" =>
    LET a == last_ret.obj
        b == last_ret.before
    IN  /\ transform[a] =
             [translation |-> FieldAfter(last_ret.translation, b.transform.translation),
              rotation |-> FieldAfter(last_ret.rotation, b.transform.rotation),
              scale |-> FieldAfter(last_ret.scale, b.transform.scale)]
        /\ asset_running[a] = b.is_running
        /\ tag_running = b.tag_running
        /\ payloads # <<>> /\ pubLog # <<>>
        /\ payloads[Len(payloads)].transform = transform[a]
        /\ pubLog[Len(pubLog)].event_type = "InstanceUpdated"
        /\ pubLog[Len(pubLog)].event_id = payloads[Len(payloads)].event_id
        /\ Len(SelectSeq(pubLog, LAMBDA e : e.event_type = "InstanceUpdated"))
             = Len(payloads)

(* ----------------------------- generation claims ----------------------- *)
\* the Tag Servants of the runtime: (instance id, tag-definition id)
GeneratedTagServants ==
  UNION {{<<registry[k], tag_servants[registry[k]][j]>> :
            j \in DOMAIN tag_servants[registry[k]]} : k \in DOMAIN registry}

\* C26: in every runtime generate_servants produces, no two Tag Servants
\* share an identity (tag_instance_id) and no two Asset Servants share an
\* instance id, whatever instance ids and tag-definition ids the layout and
\* the definitions contain.
C26_IdentitiesAreUnique ==
  /\ \A i, j \in DOMAIN registry : i # j => registry[i] # registry[j]
  /\ \A x, y \in GeneratedTagServants :
       x # y => TagInstanceId(x[1], x[2]) # TagInstanceId(y[1], y[2])

\* the instances of the loaded layout whose asset definition resolves
ResolvedInstances ==
  {fdl.instances[k].instance_id :
     k \in {i \in DOMAIN fdl.instances : Resolves(fdl.instances[i].ref_asset)}}

\* C27: generate_servants raises only when no layout is loaded, and then
\* leaves the servant registry unchanged; otherwise it never raises and the
\* registry holds one Asset Servant for exactly those placed instances
\* whose asset definition resolves.
C27_RegistryIsResolvedInstances ==
  last_ret.op = "generate_servants" =>
    /\ (last_ret.result # "None") = ~last_ret.loaded
    /\ last_ret.result # "None" => registry = last_ret.before
    /\ last_ret.result = "None" =>
         /\ {registry[k] : k \in DOMAIN registry} = ResolvedInstances
         /\ \A i, j \in DOMAIN registry : i # j => registry[i] # registry[j]

(* ------------------------ concurrent lifecycle claim ------------------- *)
\* the *Deleted events servant s has published
Deleted(s) ==
  Len(SelectSeq(life_log, LAMBDA e : e.source = s
                  /\ e.event_type \in {"InstanceDeleted", "TagDeleted"}))

\* C28: the runtime serializes concurrent lifecycle calls: for any
\* interleaving of start_all_servants, stop_all_servants and servant
\* start/stop calls from several threads, each servant publishes exactly
\* one *Created event per stopped-to-running transition and exactly one
\* *Deleted event per running-to-stopped transition.
C28_OneEventPerTransition ==
  Quiescent =>
    \A s \in Servants : n_created[s] = n_transitions[s] /\ Deleted(s) = n_stops[s]

(* ------------------------------ store claims --------------------------- *)
\* the rows of the write_tag_values call id that a query reads
RowsOfBatch(id) == SelectSeq(tag_values, LAMBDA r : r.batch = id)

\* C30: a batch write is all-or-nothing: after a write_tag_values call that
\* fails no value of that batch is visible to any query, and after one that
\* succeeds all of them are, for every interleaving with concurrent
\* write_tag_value calls on the same store.
C30_BatchIsAllOrNothing ==
  last_ret.op = "write_tag_values" =>
    IF last_ret.failed
    THEN RowsOfBatch(last_ret.id) = <<>>
    ELSE /\ Len(RowsOfBatch(last_ret.id)) = Len(last_ret.values)
         /\ \A k \in DOMAIN last_ret.values :
              /\ RowsOfBatch(last_ret.id)[k].value = last_ret.values[k].value
              /\ RowsOfBatch(last_ret.id)[k].committed

C32_EventIdsSortInCreationOrder ==
  \A i, j \in DOMAIN event_ids : i < j => IdLess(event_ids[i], event_ids[j])

(* --------------------------- routing claims ---------------------------- *)
\* no call is under way and the queue has been drained
Drained ==
  /\ \A t \in Threads : pc[t] = "idle" /\ qpc[t] = "idle"
  /\ Size(TableOf(Q)) = 0

\* C33: with a wildcard subscriber that puts every delivered event into a
\* named queue whose capacity is not reached, draining the queue returns the
\* events in exactly the bus's publish order, each once, also when several
\* threads publish concurrently.
C33_DrainIsPublishSequence ==
  Drained =>
    [i \in DOMAIN get_log |-> get_log[i].result]
      = [i \in DOMAIN pubLog |-> ToDict(pubLog[i])]

(* ---------------------- concurrent update claims ----------------------- *)
\* the payload _publish_tag_value_changed built for the TagValueChanged event e
PayloadOf(e) == payloads[CHOOSE k \in DOMAIN payloads : payloads[k].event_id = e.event_id]

\* C34: for any interleaving of concurrent update_value calls on one running
\* Tag Servant, its TagValueChanged events in bus history order form a chain:
\* the first has the unset value as old value, each later one's old value is
\* the previous one's new value, and the servant's current value is the new
\* value of the last one.
C34_ChangesFormAChain ==
  LET ch == ChangedIn(pubLog) IN
    /\ \A k \in DOMAIN ch :
         PayloadOf(ch[k]).old_value =
           IF k = 1 THEN NoValue ELSE PayloadOf(ch[k - 1]).new_value
    /\ (NoUpdateUnderWay /\ ch # <<>>) =>
         current_value = PayloadOf(ch[Len(ch)]).new_value

\* C35: for any interleaving of start/stop with concurrent update_value
\* calls, no TagValueChanged event of the tag appears in the bus history
\* before its TagCreated, or between its TagDeleted and its next TagCreated.
C35_ChangesOnlyBetweenCreatedAndDeleted ==
  \A k \in DOMAIN pubLog :
    pubLog[k].event_type = "TagValueChanged" =>
      \E j \in 1..(k - 1) :
        /\ pubLog[j].event_type = "TagCreated"
        /\ \A i \in (j + 1)..(k - 1) : pubLog[i].event_type # "TagDeleted"

(* ----------------------- service-level claims -------------------------- *)
\* no call on the service or on a servant is under way
Quiet == \A t \in Threads : frames[t] = <<>> /\ pc[t] = "idle"

\* C36: after any sequence of generate_servants, start_all_servants and
\* stop_all_servants calls the service-level running flag agrees with the
\* servants: when it is true every Asset Servant in the registry is running,
\* when it is false every one is stopped; and no running servant is dropped
\* from the registry without having published its *Deleted events.
C36_ServiceFlagAgreesWithServants ==
  /\ [](Quiet => \A k \in DOMAIN registry : asset_running[registry[k]] = svc_running)
  /\ [][GenerateServants("t1") =>
          \A k \in DOMAIN registry :
            asset_running[registry[k]] => asset_running'[registry[k]]]_vars

\* C37: after any sequence of AssetServant.start() and stop() calls, also
\* calls during which an event publication raises, the Asset Servant's
\* running flag equals the running flag of every Tag Servant it owns, and
\* the owned Tag Servants are the ones built at construction.
C37_AssetFlagEqualsTagFlags ==
  Quiet =>
    \A k \in DOMAIN registry :
      LET a == registry[k] IN
        /\ \A i \in DOMAIN TagsOf(a) : tag_running[TagsOf(a)[i]] = asset_running[a]
        /\ tag_servants[a] = AssetLibrary["gauge"]

(* ---------------------------- replay claims ---------------------------- *)
\* replay_events of thread t has replayed an event, has another one to
\* replay, and is between the two with-blocks
BetweenReplayedEvents(t) ==
  /\ pc[t] = "replay_loop"
  /\ 1 < replay_pos[t]
  /\ replay_pos[t] <= Len(events_to_replay[t])

\* the subscriptions whose callback a finished call invoked for event id
ReceiversOf(ret, id) ==
  {ret.invoked[k].sub_id : k \in {j \in DOMAIN ret.invoked : ret.invoked[j].event_id = id}}

\* C38: replay_events is atomic with respect to concurrent publish, subscribe
\* and unsubscribe: no subscriber receives a newly published event between
\* two events of one replay, and the set of subscribers receiving the replay
\* is the same for every replayed event.
C38_ReplayIsAtomic ==
  /\ \A t, u \in Threads :
       BetweenReplayedEvents(t) => ~(pc[u] = "deliver" /\ invoked[u] # <<>>)
  /\ last_ret.op = "replay_events" =>
       \A i, j \in DOMAIN last_ret.events :
         ReceiversOf(last_ret, last_ret.events[i].event_id)
           = ReceiversOf(last_ret, last_ret.events[j].event_id)

(* --------------------------- isolation claims -------------------------- *)
\* C39: queues obtained from one manager under different names are isolated:
\* a put, get or delete on one queue never changes the size, the pending
\* messages or the history of a queue with a different name, for all pairs
\* of distinct names, also names that differ only in non-alphanumeric
\* characters.
C39_QueuesAreIsolated ==
  [][\A m \in Names :
       (queues[m].exists /\ TableOf(m)' # TableOf(m)) => last_ret'.name = m]_vars

\* C40: with subscribers that only put into a queue, a thread holds a queue
\* lock beyond one turn of get only inside publish, with the bus lock
\* already taken (never the other way round), and every publish call that
\* was started returns, whatever other publishers, servant calls and
\* consumers, those blocked in get included, do
InPublish(t) == pc[t] \in {"publish", "deliver"}
C40_PublishAlwaysReturns ==
  /\ [](\A t \in Threads, n \in Names :
         queues[n].lock = t => (lock = t /\ pc[t] = "deliver"))
  /\ \A t \in Threads : InPublish(t) ~> ~InPublish(t)
C40_Witness ==
  \E t, u \in Threads :
    /\ t # u
    /\ qpc[u] = "sleep" /\ qarg[u].timeout = "None" /\ qarg[u].slept
    /\ last_ret.op = "publish" /\ last_ret.result = "True"
    /\ pc[t] = "idle" /\ Len(put_ok) > 0

====
